---- MODULE Spec2Model ----
(***************************************************************************)
(* State-machine model of the tidefall combat / movement core:             *)
(*   api/projectile_manager.py  (projectile registry and its tick)         *)
(*   api/harpoon_handler.py, api/cannon_handler.py  (weapon modules)       *)
(*   api/player_handler.py      (damage, defeat, timed respawn)            *)
(*   api/app.py                 (presence cache, position sync)            *)
(*   api/simulations.py         (kinematics)                               *)
(*                                                                         *)
(* Clock: time.time() is read as an integer count of half seconds, so      *)
(* every duration of the source is written in that unit (0.5 s = 1).       *)
(* Distances are in world units; a speed is in world units per clock unit. *)
(* Python dicts keep insertion order, so a dict that is iterated is a      *)
(* sequence of [k, v] entries; a dict that is only looked up is a function.*)
(***************************************************************************)
EXTENDS Integers, Sequences, FiniteSets, TLC

VARIABLES
    now,                      \* the reading of time.time()
    players,                  \* app.players: the presence cache (ordered dict)
    pm_socketio,              \* projectile_manager.socketio is set
    pm_loops,                 \* number of running background_task_wrapper loops
    projectiles,              \* projectile_manager.projectiles (ordered dict)
    cannons,                  \* cannon_handler.cannons (ordered dict)
    player_cooldowns,         \* cannon_handler.player_cooldowns
    player_harpoon_cooldowns, \* harpoon_handler.player_harpoon_cooldowns
    last_db_update,           \* app.last_db_update
    last_db_positions,        \* app.last_db_positions
    db_players,               \* persistence service: player -> [position, at] last written
    socket_to_user_map,       \* app.socket_to_user_map: session id -> player id
    joining,                  \* player_join handlers waiting in verify_firebase_token
    timers,                   \* pending delayed_respawn tasks: [player, due]
    out,                      \* events emitted by the last handler, in order
    last,                     \* the last operation and its inputs
    removed,                  \* history: id -> number of deletions from projectiles
    cannon_origin,            \* history: cannon id -> position stored at fire
    calls                     \* history: how often each capped operation has run

vars == <<now, players, pm_socketio, pm_loops, projectiles, cannons,
          player_cooldowns, player_harpoon_cooldowns, last_db_update,
          last_db_positions, db_players, socket_to_user_map, joining, timers, out, last,
          removed,
          cannon_origin, calls>>

-----------------------------------------------------------------------------
(* Bounds of the model *)

Epoch0 == 10          \* clock reading at start-up (time.time() is far from 0)
RegistryHorizon == 5  \* clock units explored by the registry specification
MaxSpawns == 2        \* direct add_projectile calls explored
CombatHorizon == 6    \* clock units explored by the combat specification
CannonHorizon == 7    \* clock units explored by the cannon specification
DamageHorizon == 1    \* clock units explored by the damage specification
MaxTimers == 2        \* pending respawn timers
MaxUpdates == 2       \* update_cannon_positions calls explored
FireHorizon == 3      \* clock units explored by the fire specification
MoveHorizon == 6      \* clock units explored by the position sync specification
FireWindow == 1       \* clock units in which fire requests arrive, fair specification
MaxFires == 3         \* cannon fire requests explored
CheckerHorizon == 2   \* clock units explored with a raising checker
MaxRequests == 51     \* GET requests explored

(* Program constants, durations in clock units of 0.5 s *)

HARPOON_SPEED == 40       \* 80 units/s
HARPOON_LIFETIME == 4     \* 2.0 s
HARPOON_COOLDOWN == 3     \* 1.5 s
HARPOON_HIT_RADIUS == 5
CANNON_SPEED == 20        \* 40 units/s
CANNON_LIFETIME == 6      \* 3 s
CANNON_DAMAGE == 10
CANNON_COOLDOWN == 1      \* 0.5 s
CANNON_BLAST_RADIUS == 5
DEFAULT_HEALTH == 100
RESPAWN_DELAY == 6        \* 3 s
DB_UPDATE_INTERVAL == 4   \* 2 s
MIN_POSITION_UPDATE_DISTANCE == 20

PlayerIds == {"p1", "p2", "p3"}
NoPlayer == "none"
NoId == <<"none", "none", 0>>

-----------------------------------------------------------------------------
(* Python dict helpers *)

DictKeys(d) == [i \in 1..Len(d) |-> d[i].k]
DictKeySet(d) == {d[i].k : i \in 1..Len(d)}
DictHas(d, key) == \E i \in 1..Len(d) : d[i].k = key
DictGet(d, key) == d[CHOOSE i \in 1..Len(d) : d[i].k = key].v
DictPut(d, key, val) ==
    IF DictHas(d, key)
    THEN [i \in 1..Len(d) |-> IF d[i].k = key THEN [k |-> key, v |-> val] ELSE d[i]]
    ELSE Append(d, [k |-> key, v |-> val])
DictDel(d, key) == SelectSeq(d, LAMBDA e : e.k # key)

MapPut(f, key, val) == [a \in DOMAIN f \cup {key} |-> IF a = key THEN val ELSE f[a]]
MapGet(f, key, default) == IF key \in DOMAIN f THEN f[key] ELSE default
MapDel(f, key) == [a \in DOMAIN f \ {key} |-> f[a]]
EmptyMap == [a \in {} |-> 0]

SeqToSet(s) == {s[i] : i \in 1..Len(s)}
Min(S) == CHOOSE m \in S : \A n \in S : m <= n

Pos(px, py, pz) == [x |-> px, y |-> py, z |-> pz]

Event(name, who, other, pid, pos, target) ==
    [ev |-> name, who |-> who, other |-> other, pid |-> pid, pos |-> pos, to |-> target]

-----------------------------------------------------------------------------
(* Kinematics: api/simulations.py *)

\* gravity is even in every input of the model, so 0.5 * gravity * t * t is exact
simulate_projectile(initial_position, initial_velocity, gravity, time_elapsed) ==
    [x |-> initial_position.x + initial_velocity.x * time_elapsed,
     y |-> initial_position.y + initial_velocity.y * time_elapsed
             - (gravity * time_elapsed * time_elapsed) \div 2,
     z |-> initial_position.z + initial_velocity.z * time_elapsed]

\* calculate_distance returns sqrt(DistanceSq); the callers compare it with a
\* non-negative radius r, and  sqrt(d) <= r  <=>  d <= r * r
DistanceSq(pos1, pos2) ==
    LET dx == pos1.x - pos2.x
        dy == pos1.y - pos2.y
        dz == pos1.z - pos2.z
    IN dx * dx + dy * dy + dz * dz

-----------------------------------------------------------------------------
(* The presence cache: api/app.py *)

PlayerRecord(position, has_position, active, health) ==
    [active |-> active, health |-> health, has_position |-> has_position,
     position |-> position, rotation |-> 0, mode |-> "boat",
     last_update |-> 0, monsterKills |-> 0, status_effects |-> {}]

PlayerEntry(id, position, has_position, active) ==
    [k |-> id, v |-> PlayerRecord(position, has_position, active, DEFAULT_HEALTH)]

Known(id) == DictHas(players, id)
Player(id) == DictGet(players, id)

-----------------------------------------------------------------------------
(* Projectile registry: api/projectile_manager.py *)

\* variant: the harpoon checker is registered for the cannon type as well
collision_checkers_both == {"harpoon", "cannon"}

\* harpoon_handler.init_socketio registers the only checker
collision_checkers == {"harpoon"}

\* f"{projectile_type}_{owner_id}_{current_time:.4f}"
projectile_id(projectile_type, owner_id, current_time) ==
    <<projectile_type, owner_id, current_time>>

projectile_data(owner_id, projectile_type, initial_position, direction, speed, lifetime, gravity, current_time) ==
    [id |-> projectile_id(projectile_type, owner_id, current_time),
     owner |-> owner_id,
     type |-> projectile_type,
     initial_position |-> initial_position,
     direction |-> direction,
     speed |-> speed,
     gravity |-> gravity,
     created_at |-> current_time,
     expires_at |-> current_time + lifetime,
     position |-> initial_position]

\* the table after add_projectile, for an initialized manager
add_projectile(table, owner_id, projectile_type, initial_position, direction, speed, lifetime, gravity, current_time) ==
    DictPut(table, projectile_id(projectile_type, owner_id, current_time),
            projectile_data(owner_id, projectile_type, initial_position, direction,
                            speed, lifetime, gravity, current_time))

remove_projectile(table, id) == IF DictHas(table, id) THEN DictDel(table, id) ELSE table

\* variant: the traversal keeps going and the last player in range wins
harpoon_collision_check_last(cache, harpoon_data) ==
    LET hits == {i \in 1..Len(cache) :
                    /\ cache[i].k # harpoon_data.owner
                    /\ cache[i].v.active
                    /\ cache[i].v.has_position
                    /\ DistanceSq(harpoon_data.position, cache[i].v.position)
                           <= HARPOON_HIT_RADIUS * HARPOON_HIT_RADIUS}
    IN IF hits = {} THEN NoPlayer
       ELSE cache[CHOOSE i \in hits : \A j \in hits : j <= i].k

\* the player hit by the harpoon, NoPlayer when the callback returns False
harpoon_collision_check_callback(cache, harpoon_data) ==
    LET hits == {i \in 1..Len(cache) :
                    /\ cache[i].k # harpoon_data.owner
                    /\ cache[i].v.active
                    /\ cache[i].v.has_position
                    /\ DistanceSq(harpoon_data.position, cache[i].v.position)
                           <= HARPOON_HIT_RADIUS * HARPOON_HIT_RADIUS}
    IN IF hits = {} THEN NoPlayer ELSE cache[Min(hits)].k

\* handle_harpoon_player_hit: the status effect is disabled, one broadcast is sent
handle_harpoon_player_hit(harpoon_data, hit_player_id) ==
    Event("harpoon_hit_broadcast", harpoon_data.owner, hit_player_id,
          harpoon_data.id, harpoon_data.position, "all")

projectile_position(projectile, current_time) ==
    simulate_projectile(
        projectile.initial_position,
        [x |-> projectile.direction.x * projectile.speed,
         y |-> projectile.direction.y * projectile.speed,
         z |-> projectile.direction.z * projectile.speed],
        projectile.gravity,
        current_time - projectile.created_at)

\* a position all of whose coordinates are numbers; the handlers test only that
\* the keys x, y and z are there, so a payload may carry null or text in one
Numeric(position) == DOMAIN position = {"x", "y", "z"}

NonNumericPos == [x |-> 0, y |-> 0, z |-> 0, text |-> TRUE]

\* variant: the tick restarts the flight from where the projectile is
moved_projectile_restarted(projectile, current_time) ==
    [projectile EXCEPT !.position = projectile_position(projectile, current_time),
                       !.initial_position = projectile_position(projectile, current_time),
                       !.created_at = current_time]

\* projectile['position'] = new_pos: the only write of a tick to a projectile
moved_projectile(projectile, current_time) ==
    [projectile EXCEPT !.position = projectile_position(projectile, current_time)]

\* the loop of _update_projectiles_task over active_ids; raising is the set of
\* projectiles for which the registered checker raises, acc.aborted is set
\* when simulate_projectile raises (the exception leaves the task)
RECURSIVE update_scan(_, _, _, _, _)
update_scan(active_ids, acc, cache, raising, current_time) ==
    IF active_ids = <<>> \/ acc.aborted THEN acc
    ELSE
      LET id == Head(active_ids)
          rest == Tail(active_ids)
      IN
      IF ~DictHas(acc.projs, id) THEN update_scan(rest, acc, cache, raising, current_time)
      ELSE
        LET projectile == DictGet(acc.projs, id) IN
        IF current_time >= projectile.expires_at
        THEN update_scan(rest, [acc EXCEPT !.expired = Append(@, id)], cache, raising,
                         current_time)
        ELSE IF ~Numeric(projectile.initial_position)
        THEN [acc EXCEPT !.aborted = TRUE]
        ELSE
          LET moved == moved_projectile(projectile, current_time)
              called == moved.type \in collision_checkers
              hit == IF called /\ id \notin raising
                     THEN harpoon_collision_check_callback(cache, moved)
                     ELSE NoPlayer
          IN update_scan(rest,
                 [projs |-> DictPut(acc.projs, id, moved),
                  expired |-> acc.expired,
                  collided |-> IF hit # NoPlayer THEN Append(acc.collided, id)
                               ELSE acc.collided,
                  raised |-> IF called /\ id \in raising THEN Append(acc.raised, id)
                             ELSE acc.raised,
                  aborted |-> FALSE,
                  out |-> IF hit # NoPlayer
                          THEN Append(acc.out, handle_harpoon_player_hit(moved, hit))
                          ELSE acc.out],
                 cache, raising, current_time)

\* the cleanup of _update_projectiles_task: set(expired_ids + collided_ids)
RECURSIVE remove_all(_, _)
remove_all(table, ids) ==
    IF ids = {} THEN table
    ELSE LET id == CHOOSE i \in ids : TRUE
         IN remove_all(remove_projectile(table, id), ids \ {id})

\* variant: an error of a checker is not caught and leaves the task
update_projectiles_task_unguarded(table, cache, raising, current_time) ==
    LET scan == update_scan(DictKeys(table),
                            [projs |-> table, expired |-> <<>>, collided |-> <<>>,
                             raised |-> <<>>, aborted |-> FALSE, out |-> <<>>],
                            cache, raising, current_time)
        failed == scan.aborted \/ scan.raised # <<>>
        ids_to_remove == IF failed THEN {}
                         ELSE SeqToSet(scan.expired) \cup SeqToSet(scan.collided)
    IN [projs |-> remove_all(scan.projs, ids_to_remove),
        expired |-> scan.expired,
        collided |-> scan.collided,
        raised |-> scan.raised,
        aborted |-> failed,
        deleted |-> {id \in ids_to_remove : DictHas(scan.projs, id)},
        out |-> scan.out]

\* one call of _update_projectiles_task; the cleanup is not reached when the
\* loop was left by an exception
update_projectiles_task(table, cache, raising, current_time) ==
    LET scan == update_scan(DictKeys(table),
                            [projs |-> table, expired |-> <<>>, collided |-> <<>>,
                             raised |-> <<>>, aborted |-> FALSE, out |-> <<>>],
                            cache, raising, current_time)
        ids_to_remove == IF scan.aborted THEN {}
                         ELSE SeqToSet(scan.expired) \cup SeqToSet(scan.collided)
    IN [projs |-> remove_all(scan.projs, ids_to_remove),
        expired |-> scan.expired,
        collided |-> scan.collided,
        raised |-> scan.raised,
        aborted |-> scan.aborted,
        deleted |-> {id \in ids_to_remove : DictHas(scan.projs, id)},
        out |-> scan.out]

-----------------------------------------------------------------------------
(* Cannon module: api/cannon_handler.py *)

\* f"cannon_{player_id}_{current_time}"
cannon_id_of(player_id, current_time) == <<"cannon", player_id, current_time>>

cannon_data(player_id, position, direction, current_time) ==
    [id |-> cannon_id_of(player_id, current_time),
     owner |-> player_id,
     position |-> position,
     direction |-> direction,
     created_at |-> current_time,
     expires_at |-> current_time + CANNON_LIFETIME]

\* the fire is refused: the player is still in cooldown
cannon_in_cooldown(cooldowns, player_id, current_time) ==
    /\ player_id \in DOMAIN cooldowns
    /\ current_time - cooldowns[player_id] < CANNON_COOLDOWN

\* handle_player_defeat: a kill for the victor, health reset, one broadcast
handle_player_defeat(cache, defeated_player_id, victor_player_id) ==
    LET c1 == IF DictHas(cache, victor_player_id)
              THEN DictPut(cache, victor_player_id,
                           [DictGet(cache, victor_player_id) EXCEPT !.monsterKills = @ + 1])
              ELSE cache
    IN IF DictHas(c1, defeated_player_id)
       THEN [cache |-> DictPut(c1, defeated_player_id,
                               [DictGet(c1, defeated_player_id) EXCEPT !.health = 100]),
             out |-> <<Event("player_defeated", defeated_player_id, victor_player_id,
                             NoId, Pos(0, 0, 0), "all")>>]
       ELSE [cache |-> c1, out |-> <<>>]

\* players[hit_player_id]['health'] -= CANNON_DAMAGE, then the defeat check
cannon_damage(cache, hit_player_id, owner) ==
    LET hurt == DictPut(cache, hit_player_id,
                        [DictGet(cache, hit_player_id) EXCEPT !.health = @ - CANNON_DAMAGE])
    IN IF DictGet(hurt, hit_player_id).health <= 0
       THEN handle_player_defeat(hurt, hit_player_id, owner)
       ELSE [cache |-> hurt, out |-> <<>>]

\* get_player_socket_id returns None, so a room-addressed emit goes to the
\* session whose event is being handled
handle_cannon_collision(cache, cannon, hit_player_id) ==
    LET dmg == IF DictHas(cache, hit_player_id)
               THEN cannon_damage(cache, hit_player_id, cannon.owner)
               ELSE [cache |-> cache, out |-> <<>>]
    IN [cache |-> dmg.cache,
        out |-> <<Event("cannon_hit_success", cannon.owner, hit_player_id, cannon.id,
                        cannon.position, "sender"),
                  Event("cannon_hit", cannon.owner, hit_player_id, cannon.id,
                        cannon.position, "sender")>> \o dmg.out]

\* check_cannon_collisions: the first player of the cache it hits, or NoPlayer;
\* a player without a position counts as standing at the origin
check_cannon_collisions(cache, cannon) ==
    LET hits == {i \in 1..Len(cache) :
                    /\ cache[i].k # cannon.owner
                    /\ cache[i].v.active
                    /\ DistanceSq(cannon.position,
                                  IF cache[i].v.has_position THEN cache[i].v.position
                                  ELSE Pos(0, 0, 0))
                          <= CANNON_BLAST_RADIUS * CANNON_BLAST_RADIUS}
    IN IF hits = {} THEN NoPlayer ELSE cache[Min(hits)].k

\* the new position update_cannon_positions stores for a cannon
cannon_new_position(cannon, current_time) ==
    LET distance == CANNON_SPEED * (current_time - cannon.created_at)
    IN [x |-> cannon.position.x + cannon.direction.x * distance,
        y |-> cannon.position.y + cannon.direction.y * distance,
        z |-> cannon.position.z + cannon.direction.z * distance]

\* the loop of update_cannon_positions over cannons.items(); a collision
\* deletes from the dict being iterated, so the iterator raises RuntimeError
\* at its next step and the function is left there
RECURSIVE cannon_scan(_, _, _)
cannon_scan(ids, acc, current_time) ==
    IF ids = <<>> THEN acc
    ELSE
      LET id == Head(ids)
          cannon == DictGet(acc.cannons, id)
      IN
      IF current_time > cannon.expires_at
      THEN cannon_scan(Tail(ids), [acc EXCEPT !.expired = Append(@, id)], current_time)
      ELSE
        LET moved == [cannon EXCEPT !.position = cannon_new_position(cannon, current_time)]
            stored == DictPut(acc.cannons, id, moved)
            hit == check_cannon_collisions(acc.cache, moved)
        IN IF hit = NoPlayer
           THEN cannon_scan(Tail(ids), [acc EXCEPT !.cannons = stored], current_time)
           ELSE LET coll == handle_cannon_collision(acc.cache, moved, hit)
                IN [cannons |-> DictDel(stored, id),
                    cache |-> coll.cache,
                    expired |-> acc.expired,
                    out |-> acc.out \o coll.out,
                    raised |-> TRUE]

RECURSIVE delete_all(_, _)
delete_all(table, ids) ==
    IF ids = <<>> THEN table ELSE delete_all(DictDel(table, Head(ids)), Tail(ids))

update_cannon_positions(table, cache, current_time) ==
    LET scan == cannon_scan(DictKeys(table),
                            [cannons |-> table, cache |-> cache, expired |-> <<>>,
                             out |-> <<>>, raised |-> FALSE],
                            current_time)
    IN IF scan.raised THEN scan
       ELSE [scan EXCEPT !.cannons = delete_all(scan.cannons, scan.expired)]

cleanup_expired_cannons(table, current_time) ==
    SelectSeq(table, LAMBDA e : ~(current_time > e.v.expires_at))

-----------------------------------------------------------------------------
(* Health, defeat and respawn: api/player_handler.py *)

\* variant: the defeat is broadcast but no respawn is scheduled
handle_player_death_no_respawn(player_id, killer_id, current_time) ==
    [out |-> <<Event("player_defeated", player_id, killer_id, NoId, Pos(0, 0, 0), "all")>>,
     timers |-> <<>>]

\* handle_player_death: one broadcast, one delayed_respawn background task
handle_player_death(player_id, killer_id, current_time) ==
    [out |-> <<Event("player_defeated", player_id, killer_id, NoId, Pos(0, 0, 0), "all")>>,
     timers |-> <<[player |-> player_id, due |-> current_time + RESPAWN_DELAY]>>]

\* variant: the subtraction without max(0, ...)
new_health_unclamped(current_health, damage_amount) == current_health - damage_amount

\* max(0, current_health - damage_amount)
new_health(current_health, damage_amount) ==
    IF current_health - damage_amount > 0 THEN current_health - damage_amount ELSE 0

\* variant: only unknown ids are ignored
damage_ignored_unknown_only(cache, player_id) == ~DictHas(cache, player_id)

\* damage_player returns False at once: the id is not in the cache, or its
\* player is not active
damage_ignored(cache, player_id) ==
    ~DictHas(cache, player_id) \/ ~DictGet(cache, player_id).active

\* damage_player on a known, active player
damage_player(cache, player_id, damage_amount, source_id, current_time) ==
    LET health == new_health(DictGet(cache, player_id).health, damage_amount)
        death == IF health <= 0
                 THEN handle_player_death(player_id, source_id, current_time)
                 ELSE [out |-> <<>>, timers |-> <<>>]
    IN [cache |-> DictPut(cache, player_id,
                          [DictGet(cache, player_id) EXCEPT !.health = health]),
        out |-> death.out,
        timers |-> death.timers,
        killed |-> health <= 0]

respawn_player(cache, player_id) ==
    [cache |-> DictPut(cache, player_id,
                       [DictGet(cache, player_id) EXCEPT !.health = DEFAULT_HEALTH]),
     out |-> <<Event("player_respawned", player_id, NoPlayer, NoId, Pos(0, 0, 0), "all")>>]

-----------------------------------------------------------------------------
(* Harpoon module: api/harpoon_handler.py *)

ISqrt(n) == CHOOSE r \in 0..n : r * r <= n /\ (r + 1) * (r + 1) > n

\* math.sqrt(x**2 + y**2 + z**2); exact for the axis-parallel inputs of the model
dir_len(direction) ==
    ISqrt(direction.x * direction.x + direction.y * direction.y
          + direction.z * direction.z)

normalized_direction(direction) ==
    [x |-> direction.x \div dir_len(direction),
     y |-> direction.y \div dir_len(direction),
     z |-> direction.z \div dir_len(direction)]

\* variant: the cooldown test is skipped
harpoon_in_cooldown_skipped(cooldowns, player_id, current_time) == FALSE

\* current_time - player_harpoon_cooldowns.get(player_id, 0) < HARPOON_COOLDOWN
harpoon_in_cooldown(cooldowns, player_id, current_time) ==
    current_time - MapGet(cooldowns, player_id, 0) < HARPOON_COOLDOWN

-----------------------------------------------------------------------------
(* Position sync: api/app.py handle_position_update *)

\* variant: without the first-position case
should_update_db_far_only(db_positions, player_id, position) ==
    /\ player_id \in DOMAIN db_positions
    /\ DistanceSq(position, db_positions[player_id])
          > MIN_POSITION_UPDATE_DISTANCE * MIN_POSITION_UPDATE_DISTANCE

\* should_update_db: first position of the player, or moved far enough from
\* the last position written;  sqrt(d) > m  <=>  d > m * m
should_update_db(db_positions, player_id, position) ==
    \/ player_id \notin DOMAIN db_positions
    \/ DistanceSq(position, db_positions[player_id])
          > MIN_POSITION_UPDATE_DISTANCE * MIN_POSITION_UPDATE_DISTANCE

\* variant: the interval test passes as soon as any time has passed
db_interval_any(db_update, player_id, current_time) ==
    current_time - MapGet(db_update, player_id, 0) > 0

\* current_time - last_db_update.get(player_id, 0) > DB_UPDATE_INTERVAL
db_interval_elapsed(db_update, player_id, current_time) ==
    current_time - MapGet(db_update, player_id, 0) > DB_UPDATE_INTERVAL

\* the cache entry after the live-path assignments; rotation and mode are
\* <<>> when the payload has none, <<value>> otherwise
moved_player(player, position, rotation, mode, current_time) ==
    [player EXCEPT !.position = position,
                   !.has_position = TRUE,
                   !.rotation = IF rotation = <<>> THEN @ ELSE rotation[1],
                   !.mode = IF mode = <<>> THEN @ ELSE mode[1],
                   !.last_update = current_time]

\* the event is ignored: no player id, x or z is None, or the id is not cached
position_update_ignored(cache, player_id, position) ==
    \/ player_id = NoPlayer
    \/ "x" \notin DOMAIN position
    \/ "z" \notin DOMAIN position
    \/ ~DictHas(cache, player_id)

\* handle_position_update for a known player with x and z given; db_ok is
\* whether firestore_models.Player.update returns (it raises otherwise, and
\* the exception leaves the handler). A coordinate that is None is a field
\* the position does not have: y - last_pos['y'] raises TypeError then, after
\* the cache has been written
position_update(cache, db_update, db_positions, db, player_id, position, rotation, mode, db_ok, current_time) ==
    LET raises == /\ player_id \in DOMAIN db_positions
                  /\ ~Numeric(position) \/ ~Numeric(db_positions[player_id])
        write == /\ ~raises
                 /\ db_interval_elapsed(db_update, player_id, current_time)
                 /\ should_update_db(db_positions, player_id, position)
    IN [cache |-> DictPut(cache, player_id,
                          moved_player(DictGet(cache, player_id), position, rotation,
                                       mode, current_time)),
        db_update |-> IF write THEN MapPut(db_update, player_id, current_time)
                      ELSE db_update,
        db_positions |-> IF write THEN MapPut(db_positions, player_id, position)
                         ELSE db_positions,
        db |-> IF write /\ db_ok
               THEN MapPut(db, player_id, [position |-> position, at |-> current_time])
               ELSE db,
        write |-> IF ~write THEN "none" ELSE IF db_ok THEN "ok" ELSE "failed",
        raised |-> raises \/ (write /\ ~db_ok),
        out |-> IF raises \/ (write /\ ~db_ok) THEN <<>>
                ELSE <<Event("player_moved", player_id, NoPlayer, NoId, position,
                             "others")>>]

-----------------------------------------------------------------------------
(* Initial state: module-level tables are empty, the handlers hold the     *)
(* cache, the projectile manager is not initialized yet.                   *)

InitWith(caches) ==
    /\ now = Epoch0
    /\ players \in caches
    /\ pm_socketio = FALSE
    /\ pm_loops = 0
    /\ projectiles = <<>>
    /\ cannons = <<>>
    /\ player_cooldowns = EmptyMap
    /\ player_harpoon_cooldowns = EmptyMap
    /\ last_db_update = EmptyMap
    /\ last_db_positions = EmptyMap
    /\ db_players = EmptyMap
    /\ socket_to_user_map = EmptyMap
    /\ joining = {}
    /\ timers = <<>>
    /\ out = <<>>
    /\ last = [op |-> "start"]
    /\ removed = EmptyMap
    /\ cannon_origin = EmptyMap
    /\ calls = [spawn |-> 0, update |-> 0, fire |-> 0, aborts |-> 0, requests |-> 0]

-----------------------------------------------------------------------------
(* Actions *)

\* time passes; a due respawn timer fires before the clock moves on
Advance(horizon) ==
    /\ now < Epoch0 + horizon
    /\ \A i \in 1..Len(timers) : timers[i].due > now
    /\ now' = now + 1
    /\ out' = <<>>
    /\ last' = [op |-> "advance"]
    /\ UNCHANGED <<joining, socket_to_user_map, players, pm_socketio, pm_loops, projectiles,
                   cannons,
                   player_cooldowns, player_harpoon_cooldowns, last_db_update,
                   last_db_positions, db_players, timers, removed, cannon_origin, calls>>

\* variant: init_manager without the check for an earlier initialization
loops_after_init_unguarded(loops, initialized) == loops + 1

\* the number of background tasks after init_manager: a second call returns
\* before start_update_loop
loops_after_init(loops, initialized) == IF initialized THEN loops ELSE loops + 1

\* projectile_manager.init_manager + start_update_loop
init_manager ==
    /\ pm_socketio' = TRUE
    /\ pm_loops' = loops_after_init(pm_loops, pm_socketio)
    /\ out' = <<>>
    /\ last' = [op |-> "init_manager", again |-> pm_socketio]
    /\ UNCHANGED <<joining, socket_to_user_map,
                   now, players, projectiles, cannons, player_cooldowns,
                   player_harpoon_cooldowns, last_db_update, last_db_positions, db_players,
                   timers, removed, cannon_origin, calls>>

\* a direct call of projectile_manager.add_projectile
Spawn(owner_id, projectile_type, initial_position, direction, speed, lifetime, gravity) ==
    /\ calls.spawn < MaxSpawns
    /\ calls' = [calls EXCEPT !.spawn = @ + 1]
    /\ projectiles' = IF pm_socketio
                      THEN add_projectile(projectiles, owner_id, projectile_type,
                                          initial_position, direction, speed,
                                          lifetime, gravity, now)
                      ELSE projectiles
    /\ out' = <<>>
    /\ last' = [op |-> "spawn", lifetime |-> lifetime,
                id |-> IF pm_socketio
                       THEN projectile_id(projectile_type, owner_id, now)
                       ELSE NoId,
                present |-> DictHas(projectiles,
                                    projectile_id(projectile_type, owner_id, now))]
    /\ UNCHANGED <<joining, socket_to_user_map,
                   now, players, pm_socketio, pm_loops, cannons, player_cooldowns,
                   player_harpoon_cooldowns, last_db_update, last_db_positions, db_players,
                   timers, removed, cannon_origin>>

\* variant: an exception that leaves the task ends the loop
background_task_stops(loops, aborted) == IF aborted THEN 0 ELSE loops

\* the loops running after one pass of background_task_wrapper: the exception
\* of an aborted task is caught and logged, and the loop sleeps and goes on
background_task_wrapper(loops, aborted) == loops

\* one iteration of background_task_wrapper: _update_projectiles_task
Tick(raising) ==
    /\ pm_loops > 0
    /\ LET r == update_projectiles_task(projectiles, players, raising, now) IN
        /\ projectiles' = r.projs
        /\ out' = r.out
        /\ last' = [op |-> "tick", expired |-> r.expired, collided |-> r.collided,
                    raised |-> r.raised, aborted |-> r.aborted]
        /\ removed' = [id \in DOMAIN removed \cup r.deleted |->
                          MapGet(removed, id, 0) + (IF id \in r.deleted THEN 1 ELSE 0)]
        /\ pm_loops' = background_task_wrapper(pm_loops, r.aborted)
        /\ calls' = [calls EXCEPT !.aborts = IF r.aborted THEN 1 ELSE @]
    /\ UNCHANGED <<joining, socket_to_user_map,
                   now, players, pm_socketio, cannons, player_cooldowns,
                   player_harpoon_cooldowns, last_db_update, last_db_positions, db_players,
                   timers, cannon_origin>>

\* cannon_handler.handle_cannon_fire
CannonFire(player_id, position, direction) ==
    /\ calls.fire < MaxFires
    /\ calls' = [calls EXCEPT !.fire = @ + 1]
    /\ last' = [op |-> "cannon_fire", who |-> player_id, direction |-> direction]
    /\ IF ~Known(player_id) \/ cannon_in_cooldown(player_cooldowns, player_id, now)
       THEN /\ out' = <<>>
            /\ UNCHANGED <<player_cooldowns, cannons, cannon_origin>>
       ELSE /\ player_cooldowns' = MapPut(player_cooldowns, player_id, now)
            /\ cannons' = DictPut(cannons, cannon_id_of(player_id, now),
                                  cannon_data(player_id, position, direction, now))
            /\ cannon_origin' = MapPut(cannon_origin, cannon_id_of(player_id, now), position)
            /\ out' = <<Event("cannon_fired", player_id, NoPlayer,
                              cannon_id_of(player_id, now), position, "all")>>
    /\ UNCHANGED <<joining, socket_to_user_map,
                   now, players, pm_socketio, pm_loops, projectiles,
                   player_harpoon_cooldowns, last_db_update, last_db_positions, db_players,
                   timers, removed>>

\* cannon_handler.handle_cannon_hit: a hit reported by a client
CannonHit(reporting_player, cannon_id, hit_player_id) ==
    /\ last' = [op |-> "cannon_hit", who |-> reporting_player, id |-> cannon_id,
                victim |-> hit_player_id]
    /\ IF \/ ~DictHas(cannons, cannon_id)
          \/ reporting_player # DictGet(cannons, cannon_id).owner
          \/ ~Known(hit_player_id)
          \/ now > DictGet(cannons, cannon_id).expires_at
       THEN /\ out' = <<>>
            /\ UNCHANGED <<players, cannons>>
       ELSE LET cannon == DictGet(cannons, cannon_id)
                dmg == cannon_damage(players, hit_player_id, cannon.owner)
            IN /\ players' = dmg.cache
               /\ out' = dmg.out \o <<Event("cannon_hit", cannon.owner, hit_player_id,
                                            cannon_id, cannon.position, "sender")>>
               /\ cannons' = DictDel(cannons, cannon_id)
    /\ UNCHANGED <<joining, socket_to_user_map,
                   now, pm_socketio, pm_loops, projectiles, player_cooldowns,
                   player_harpoon_cooldowns, last_db_update, last_db_positions, db_players,
                   timers, removed, cannon_origin, calls>>

\* cannon_handler.update_cannon_positions
UpdateCannonPositions ==
    /\ calls.update < MaxUpdates
    /\ calls' = [calls EXCEPT !.update = @ + 1]
    /\ LET r == update_cannon_positions(cannons, players, now) IN
        /\ cannons' = r.cannons
        /\ players' = r.cache
        /\ out' = r.out
        /\ last' = [op |-> "update_cannon_positions", raised |-> r.raised]
    /\ UNCHANGED <<joining, socket_to_user_map,
                   now, pm_socketio, pm_loops, projectiles, player_cooldowns,
                   player_harpoon_cooldowns, last_db_update, last_db_positions, db_players,
                   timers, removed, cannon_origin>>

\* cannon_handler.cleanup_expired_cannons
CleanupExpiredCannons ==
    /\ cannons' = cleanup_expired_cannons(cannons, now)
    /\ out' = <<>>
    /\ last' = [op |-> "cleanup_expired_cannons"]
    /\ UNCHANGED <<joining, socket_to_user_map,
                   now, players, pm_socketio, pm_loops, projectiles, player_cooldowns,
                   player_harpoon_cooldowns, last_db_update, last_db_positions, db_players,
                   timers, removed, cannon_origin, calls>>

\* player_handler.damage_player
DamagePlayer(player_id, damage_amount, source_id) ==
    /\ IF damage_ignored(players, player_id)
       THEN /\ out' = <<>>
            /\ last' = [op |-> "damage", who |-> player_id, amount |-> damage_amount,
                        before |-> IF Known(player_id) THEN Player(player_id).health
                                   ELSE 0,
                        killed |-> FALSE]
            /\ UNCHANGED <<players, timers>>
       ELSE LET r == damage_player(players, player_id, damage_amount, source_id, now)
            IN /\ last' = [op |-> "damage", who |-> player_id, amount |-> damage_amount,
                           before |-> IF Known(player_id) THEN Player(player_id).health
                                      ELSE 0,
                           killed |-> r.killed]
               /\ Len(timers) + Len(r.timers) <= MaxTimers
               /\ players' = r.cache
               /\ out' = r.out
               /\ timers' = timers \o r.timers
    /\ UNCHANGED <<joining, socket_to_user_map,
                   now, pm_socketio, pm_loops, projectiles, cannons, player_cooldowns,
                   player_harpoon_cooldowns, last_db_update, last_db_positions, db_players,
                   removed, cannon_origin, calls>>

\* player_handler.delayed_respawn waking up after socketio.sleep(3)
RespawnFire ==
    \E i \in 1..Len(timers) :
        /\ timers[i].due <= now
        /\ LET r == respawn_player(players, timers[i].player) IN
            /\ players' = r.cache
            /\ out' = r.out
        /\ timers' = [j \in 1..(Len(timers) - 1) |->
                         IF j < i THEN timers[j] ELSE timers[j + 1]]
        /\ last' = [op |-> "respawn", who |-> timers[i].player, due |-> timers[i].due]
        /\ UNCHANGED <<joining, socket_to_user_map,
                   now, pm_socketio, pm_loops, projectiles, cannons,
                       player_cooldowns, player_harpoon_cooldowns, last_db_update,
                       last_db_positions, db_players, removed, cannon_origin, calls>>

\* harpoon_handler.handle_harpoon_fire
HarpoonFire(player_id, position, direction) ==
    /\ last' = [op |-> "harpoon_fire", who |-> player_id, direction |-> direction]
    /\ IF \/ ~Known(player_id)
          \/ dir_len(direction) = 0
          \/ harpoon_in_cooldown(player_harpoon_cooldowns, player_id, now)
       THEN /\ out' = <<>>
            /\ UNCHANGED <<player_harpoon_cooldowns, projectiles>>
       ELSE /\ player_harpoon_cooldowns' = MapPut(player_harpoon_cooldowns, player_id, now)
            /\ IF pm_socketio
               THEN /\ projectiles' =
                          add_projectile(projectiles, player_id, "harpoon", position,
                                         normalized_direction(direction), HARPOON_SPEED,
                                         HARPOON_LIFETIME, 0, now)
                    /\ out' = <<Event("harpoon_fired_broadcast", player_id, NoPlayer,
                                      projectile_id("harpoon", player_id, now),
                                      position, "others")>>
               ELSE /\ out' = <<>>
                    /\ UNCHANGED projectiles
    /\ UNCHANGED <<joining, socket_to_user_map,
                   now, players, pm_socketio, pm_loops, cannons, player_cooldowns,
                   last_db_update, last_db_positions, db_players, timers, removed,
                   cannon_origin, calls>>

\* app.handle_position_update; cleanup is whether hash(player_id) % 5 == 0
PositionUpdate(player_id, position, rotation, mode, db_ok, cleanup) ==
    LET ignored == position_update_ignored(players, player_id, position)
        r == position_update(players, last_db_update, last_db_positions, db_players,
                             player_id, position, rotation, mode, db_ok, now)
    IN
    /\ last' = [op |-> "update_position", who |-> player_id, position |-> position,
                rotation |-> rotation, mode |-> mode,
                fresh |-> player_id \notin DOMAIN last_db_positions,
                prev |-> IF player_id \in DOMAIN db_players
                         THEN db_players[player_id].at ELSE 0,
                write |-> IF ignored THEN "none" ELSE r.write,
                raised |-> IF ignored THEN FALSE ELSE r.raised]
    /\ IF ignored
       THEN /\ out' = <<>>
            /\ UNCHANGED <<players, cannons, last_db_update, last_db_positions, db_players>>
       ELSE /\ cannons' = IF cleanup THEN cleanup_expired_cannons(cannons, now)
                          ELSE cannons
            /\ players' = r.cache
            /\ last_db_update' = r.db_update
            /\ last_db_positions' = r.db_positions
            /\ db_players' = r.db
            /\ out' = r.out
    /\ UNCHANGED <<joining, socket_to_user_map,
                   now, pm_socketio, pm_loops, projectiles, player_cooldowns,
                   player_harpoon_cooldowns, timers, removed, cannon_origin, calls>>

\* variant: a stored document is cached as it is
joined_player_as_stored(existing, position, current_time) ==
    IF existing # <<>>
    THEN existing[1]
    ELSE [PlayerRecord(position, TRUE, TRUE, 100) EXCEPT !.last_update = current_time]

\* the record handle_player_join caches: the stored document with active,
\* last_update and health overwritten, or a new document
joined_player(existing, position, current_time) ==
    IF existing # <<>>
    THEN [existing[1] EXCEPT !.active = TRUE, !.last_update = current_time,
                             !.health = 100]
    ELSE [PlayerRecord(position, TRUE, TRUE, 100) EXCEPT !.last_update = current_time]

\* variant: any token is taken for the claimed player
join_authenticated_unverified(credential) == credential # "none"

\* firebase_token and claimed_firebase_uid are there, and the token verifies to
\* the claimed uid
join_authenticated(credential) == credential = "verified"

\* the persistence service after Player.update(docid, active, last_update,
\* health) of a stored document, or after Player.create of a new one
joined_document(db, player_id, existing, position, current_time) ==
    MapPut(db, player_id,
           [position |-> IF player_id \in DOMAIN db THEN db[player_id].position
                         ELSE IF existing # <<>> THEN existing[1].position
                         ELSE position,
            at |-> current_time])

\* app.handle_player_join of session sid. credential is "none" (token or
\* player id missing), "rejected" (verify_firebase_token fails or returns a
\* different uid) or "verified"; existing is what Player.get returns for the
\* id: <<>> or <<document>>; db_ok is whether the persistence service answers;
\* gone is whether the session has disconnected while the handler was waiting
\* for the verification
handle_player_join(sid, player_id, credential, existing, position, db_ok, gone) ==
    /\ last' = [op |-> "player_join", sid |-> sid, who |-> player_id,
                credential |-> credential, known |-> Known(player_id), gone |-> gone,
                served |-> join_authenticated(credential) /\ db_ok,
                present |-> Cardinality({i \in 1..Len(players) : players[i].v.active})]
    /\ IF credential = "none"
       THEN /\ out' = <<Event("auth_required", player_id, NoPlayer, NoId, Pos(0, 0, 0),
                              "sender")>>
            /\ UNCHANGED <<socket_to_user_map, players, db_players>>
       ELSE IF ~join_authenticated(credential)
       THEN /\ out' = <<Event("auth_error", player_id, NoPlayer, NoId, Pos(0, 0, 0),
                              "sender")>>
            /\ UNCHANGED <<socket_to_user_map, players, db_players>>
       ELSE /\ socket_to_user_map' = MapPut(socket_to_user_map, sid, player_id)
            /\ IF db_ok
               THEN LET record == joined_player(existing, position, now) IN
                    /\ players' = DictPut(players, player_id, record)
                    /\ db_players' = joined_document(db_players, player_id, existing,
                                                     position, now)
                    /\ out' = <<Event("connection_response", player_id, NoPlayer, NoId,
                                      record.position, "sender"),
                                Event("player_joined", player_id, NoPlayer, NoId,
                                      record.position, "all"),
                                Event("all_players", player_id, NoPlayer, NoId,
                                      Pos(0, 0, 0), "sender")>>
               ELSE /\ out' = <<>>
                    /\ UNCHANGED <<players, db_players>>
    /\ UNCHANGED <<now, pm_socketio, pm_loops, projectiles, cannons, player_cooldowns,
                   player_harpoon_cooldowns, last_db_update, last_db_positions,
                   timers, removed, cannon_origin, calls>>

\* a player_join whose verification is answered before any other event
Join(sid, player_id, credential, existing, position, db_ok) ==
    /\ handle_player_join(sid, player_id, credential, existing, position, db_ok, FALSE)
    /\ UNCHANGED joining

\* a player_join with a token reaches `await auth.verify_firebase_token`: the
\* handler is suspended and other events are served
JoinBegin(sid, player_id, credential) ==
    /\ credential # "none"
    /\ \A j \in joining : j.sid # sid
    /\ joining' = joining \cup {[sid |-> sid, who |-> player_id, credential |-> credential,
                                 gone |-> FALSE]}
    /\ last' = [op |-> "player_join_await", sid |-> sid, who |-> player_id]
    /\ out' = <<>>
    /\ UNCHANGED <<socket_to_user_map, players, db_players,
                   now, pm_socketio, pm_loops, projectiles, cannons, player_cooldowns,
                   player_harpoon_cooldowns, last_db_update, last_db_positions,
                   timers, removed, cannon_origin, calls>>

\* app.handle_disconnect of session sid
Disconnect(sid, db_ok) ==
    LET player_id == MapGet(socket_to_user_map, sid, NoPlayer) IN
    /\ last' = [op |-> "disconnect", sid |-> sid, who |-> player_id]
    /\ socket_to_user_map' = MapDel(socket_to_user_map, sid)
    /\ joining' = {[j EXCEPT !.gone = (j.sid = sid) \/ @] : j \in joining}
    /\ IF player_id # NoPlayer /\ Known(player_id) /\ db_ok
       THEN /\ players' = DictPut(players, player_id,
                                  [Player(player_id) EXCEPT !.active = FALSE])
            /\ out' = <<Event("player_disconnected", player_id, NoPlayer, NoId,
                              Pos(0, 0, 0), "all")>>
       ELSE /\ out' = <<>>
            /\ UNCHANGED players
    /\ UNCHANGED <<now, pm_socketio, pm_loops, projectiles, cannons, player_cooldowns,
                   player_harpoon_cooldowns, last_db_update, last_db_positions, db_players,
                   timers, removed, cannon_origin, calls>>

\* the response of app.get_players: jsonify of the active players, status 200
get_players(cache) ==
    [status |-> 200,
     body |-> {cache[i].k : i \in {j \in 1..Len(cache) : cache[j].v.active}}]

\* GET /api/players
GetPlayers ==
    /\ calls.requests < MaxRequests
    /\ calls' = [calls EXCEPT !.requests = @ + 1]
    /\ last' = [op |-> "get_players", nth |-> calls.requests + 1, since |-> now - Epoch0,
                status |-> get_players(players).status,
                body |-> get_players(players).body]
    /\ out' = <<>>
    /\ UNCHANGED <<joining, socket_to_user_map,
                   now, players, pm_socketio, pm_loops, projectiles, cannons,
                   player_cooldowns, player_harpoon_cooldowns, last_db_update,
                   last_db_positions, db_players, timers, removed, cannon_origin>>

-----------------------------------------------------------------------------
(* Specification of the projectile registry *)

Origin == Pos(0, 0, 0)
AxisX == Pos(1, 0, 0)

\* p1 stands at the muzzle; p2 and p3 both stand within the harpoon's hit
\* radius of its position one clock unit after a shot along x
RegistryCache(order, act2, pos3) ==
    [i \in 1..Len(order) |->
        IF order[i] = "p1" THEN PlayerEntry("p1", Origin, TRUE, TRUE)
        ELSE IF order[i] = "p2" THEN PlayerEntry("p2", Pos(40, 3, 0), TRUE, act2)
        ELSE PlayerEntry("p3", Pos(43, 0, 0), pos3, TRUE)]

RegistryCaches ==
    { RegistryCache(<<"p1", "p2", "p3">>, TRUE, TRUE),
      RegistryCache(<<"p1", "p3", "p2">>, TRUE, TRUE),
      RegistryCache(<<"p1", "p2", "p3">>, FALSE, TRUE),
      RegistryCache(<<"p1", "p3", "p2">>, TRUE, FALSE) }

\* what a weapon module passes to add_projectile: type, speed, lifetime, gravity
HarpoonProfile ==
    [type |-> "harpoon", speed |-> HARPOON_SPEED, lifetime |-> HARPOON_LIFETIME,
     gravity |-> 0]
CannonProfile ==
    [type |-> "cannon", speed |-> CANNON_SPEED, lifetime |-> 3, gravity |-> 2]

SpawnInputs ==
    { [owner |-> "p1", prof |-> HarpoonProfile],
      [owner |-> "p2", prof |-> HarpoonProfile],
      [owner |-> "p1", prof |-> CannonProfile] }

InitRegistry == InitWith(RegistryCaches)

NextRegistry ==
    \/ Advance(RegistryHorizon)
    \/ init_manager
    \/ \E i \in SpawnInputs :
          Spawn(i.owner, i.prof.type, Origin, AxisX, i.prof.speed, i.prof.lifetime,
                i.prof.gravity)
    \/ Tick({})

SpecRegistry == InitRegistry /\ [][NextRegistry]_vars

\* the registry with a checker that may raise: raising is the set of
\* projectiles for which the callback raises in the tick
InitChecker == InitWith({RegistryCache(<<"p1", "p2", "p3">>, TRUE, TRUE)})

NextChecker ==
    \/ Advance(CheckerHorizon)
    \/ init_manager
    \/ \E i \in SpawnInputs :
          Spawn(i.owner, i.prof.type, Origin, AxisX, i.prof.speed, i.prof.lifetime,
                i.prof.gravity)
    \/ \E raising \in SUBSET DictKeySet(projectiles) : Tick(raising)

SpecChecker == InitChecker /\ [][NextChecker]_vars

-----------------------------------------------------------------------------
(* Claims about the projectile registry *)

\* C1: every projectile id is deleted from the registry table at most once and
\* is never in the table again after its deletion, and no tick classifies an
\* id as both expired and collided.
C1_RemovedOnceForGood ==
    /\ \A id \in DOMAIN removed : removed[id] <= 1 /\ ~DictHas(projectiles, id)
    /\ last.op = "tick" =>
          SeqToSet(last.expired) \cap SeqToSet(last.collided) = {}

\* the players a harpoon at position pos, owned by owner, may hit
EligibleInRadius(owner, pos) ==
    {j \in 1..Len(players) :
        /\ players[j].k # owner
        /\ players[j].v.active
        /\ players[j].v.has_position
        /\ DistanceSq(pos, players[j].v.position) <= 25}

HitsFor(events, id) ==
    {k \in 1..Len(events) : events[k].ev = "harpoon_hit_broadcast" /\ events[k].pid = id}

\* where a projectile is at clock reading t, from the values stored at spawn
DirectPosition(p, t) ==
    [x |-> p.initial_position.x + p.direction.x * p.speed * (t - p.created_at),
     y |-> p.initial_position.y + p.direction.y * p.speed * (t - p.created_at)
             - (p.gravity * (t - p.created_at) * (t - p.created_at)) \div 2,
     z |-> p.initial_position.z + p.direction.z * p.speed * (t - p.created_at)]

\* the pass of a tick gets as far as the i-th projectile of the table and
\* moves it: it and the live projectiles before it have numeric positions
ReachedByTick(i) ==
    \A j \in 1..i :
        \/ Numeric(projectiles[j].v.initial_position)
        \/ j < i /\ now >= projectiles[j].v.expires_at

\* C4: a tick that finds eligible players within the hit radius of a live
\* projectile whose type has a checker emits exactly one hit for it, naming
\* the first such player in cache order, and removes it; every hit a tick
\* emits is for a projectile that was live and is removed by that tick.
C4_OneHitFirstInOrder ==
    [][last'.op = "tick" =>
         /\ \A i \in 1..Len(projectiles) :
              LET p == projectiles[i].v
                  elig == EligibleInRadius(p.owner, DirectPosition(p, now))
              IN (/\ p.type \in collision_checkers
                  /\ p.id \notin SeqToSet(last'.raised)
                  /\ now < p.expires_at
                  /\ ReachedByTick(i)
                  /\ elig # {}) =>
                    /\ Cardinality(HitsFor(out', p.id)) = 1
                    /\ \A k \in HitsFor(out', p.id) :
                          out'[k].other = players[Min(elig)].k
                    /\ ~DictHas(projectiles', p.id)
         /\ \A k \in 1..Len(out') :
              /\ DictHas(projectiles, out'[k].pid)
              /\ ~DictHas(projectiles', out'[k].pid)
              /\ Cardinality(HitsFor(out', out'[k].pid)) = 1
      ]_vars

\* a tick hit p3 although p2, later in cache order, was eligible and in radius too
C4_Witness ==
    /\ last.op = "tick"
    /\ Len(out) = 1
    /\ out[1].other = "p3"
    /\ Cardinality(EligibleInRadius(out[1].who, out[1].pos)) = 2
    /\ ~DictHas(projectiles, out[1].pid)

-----------------------------------------------------------------------------
(* Specification of the cannon module and of health, defeat and respawn *)

\* p1 fires along x from the origin; p2 stands where the cannonball is after
\* one clock unit (20), or where update_cannon_positions puts it after two (60)
CombatCache(x2) ==
    <<PlayerEntry("p1", Origin, TRUE, TRUE), PlayerEntry("p2", Pos(x2, 0, 0), TRUE, TRUE)>>

CombatCaches == {CombatCache(20), CombatCache(60)}

DamageAmounts == {95, 100}

InitCombat == InitWith(CombatCaches)

NextCombat ==
    \/ Advance(CombatHorizon)
    \/ \E victim \in {"p2", "p3"}, amount \in DamageAmounts :
          DamagePlayer(victim, amount, "p1")
    \/ RespawnFire

SpecCombat == InitCombat /\ [][NextCombat]_vars

NextCannon ==
    \/ Advance(CannonHorizon)
    \/ CannonFire("p1", Origin, AxisX)
    \/ \E id \in DictKeySet(cannons), victim \in {"p1", "p2"} : CannonHit("p1", id, victim)
    \/ UpdateCannonPositions
    \/ CleanupExpiredCannons

SpecCannon == InitCombat /\ [][NextCannon]_vars

\* every path that lowers a player's health
NextDamage ==
    \/ Advance(DamageHorizon)
    \/ CannonFire("p1", Origin, AxisX)
    \/ \E id \in DictKeySet(cannons) : CannonHit("p1", id, "p2")
    \/ UpdateCannonPositions
    \/ \E amount \in DamageAmounts : DamagePlayer("p2", amount, "p1")

SpecDamage == InitCombat /\ [][NextDamage]_vars

-----------------------------------------------------------------------------
(* Claims about positions, health, defeat and respawn *)

\* the registry half of C3: after a tick every projectile left in the table
\* is where the closed form puts it at the tick's clock reading
RegistryPositionIsDirect ==
    last.op = "tick" =>
        \A i \in 1..Len(projectiles) :
            projectiles[i].v.position = DirectPosition(projectiles[i].v, now)

\* where a cannonball fired from origin is at clock reading t (no gravity is
\* stored for it)
DirectCannonPosition(c, origin, t) ==
    [x |-> origin.x + c.direction.x * CANNON_SPEED * (t - c.created_at),
     y |-> origin.y + c.direction.y * CANNON_SPEED * (t - c.created_at),
     z |-> origin.z + c.direction.z * CANNON_SPEED * (t - c.created_at)]

\* C3: after any number of position updates the stored position of a live
\* projectile (registry or cannon table) is initial + direction * speed *
\* elapsed, less gravity * elapsed^2 / 2 vertically, computed from the values
\* stored at spawn.
C3_PositionIsDirect ==
    /\ RegistryPositionIsDirect
    /\ last.op = "update_cannon_positions" =>
          \A i \in 1..Len(cannons) :
              ~(now > cannons[i].v.expires_at) =>
                  cannons[i].v.position =
                      DirectCannonPosition(cannons[i].v, cannon_origin[cannons[i].k], now)

PendingRespawn(player_id) == \E i \in 1..Len(timers) : timers[i].player = player_id

DefeatsOf(events, player_id) ==
    {k \in 1..Len(events) : events[k].ev = "player_defeated" /\ events[k].who = player_id}

RespawnsOf(events, player_id) ==
    {k \in 1..Len(events) : events[k].ev = "player_respawned" /\ events[k].who = player_id}

\* C5: damage to an active player who is dead (health 0, respawn pending)
\* emits no defeat broadcast and schedules no respawn timer.
C5_DeadIsNotDefeatedAgain ==
    [][(/\ last'.op = "damage"
        /\ Known(last'.who)
        /\ Player(last'.who).active
        /\ Player(last'.who).health = 0
        /\ PendingRespawn(last'.who))
       => (DefeatsOf(out', last'.who) = {} /\ timers' = timers)
      ]_vars

\* C6: a damage operation that takes an active player's health from above 0
\* to 0 emits exactly one defeat broadcast for that player and schedules
\* exactly one respawn, due RESPAWN_DELAY later; a respawn fires when its
\* delay has elapsed, emits exactly one respawn broadcast for its player,
\* leaves that player's health at 100 and consumes its timer.
C6_OneDefeatOneRespawn ==
    /\ [](\A i \in 1..Len(timers) : now <= timers[i].due)
    /\ [][(/\ last'.op = "damage"
           /\ Known(last'.who)
           /\ Player(last'.who).active
           /\ Player(last'.who).health > 0
           /\ Player(last'.who).health <= last'.amount)
          => /\ DictGet(players', last'.who).health = 0
             /\ Cardinality(DefeatsOf(out', last'.who)) = 1
             /\ timers' = Append(timers, [player |-> last'.who,
                                          due |-> now + RESPAWN_DELAY])
         ]_vars
    /\ [][last'.op = "respawn"
          => /\ last'.due = now
             /\ \E i \in 1..Len(timers) :
                   timers[i] = [player |-> last'.who, due |-> last'.due]
             /\ Len(timers') = Len(timers) - 1
             /\ Len(out') = 1
             /\ Cardinality(RespawnsOf(out', last'.who)) = 1
             /\ DictGet(players', last'.who).health = 100
         ]_vars

\* p2 was defeated at start-up time and has respawned RESPAWN_DELAY later
C6_Witness ==
    /\ last.op = "respawn"
    /\ last.who = "p2"
    /\ now = Epoch0 + RESPAWN_DELAY
    /\ Player("p2").health = 100
    /\ timers = <<>>

\* C7: whichever path applies damage, no stored health is below 0.
C7_HealthNeverNegative ==
    \A i \in 1..Len(players) : players[i].v.health >= 0

\* damage_player clamped: more damage than the health that was left
C7_Witness ==
    /\ last.op = "damage"
    /\ last.before > 0
    /\ last.before < last.amount
    /\ Player(last.who).health = 0

-----------------------------------------------------------------------------
(* Specification of the two fire handlers *)

FireCache == <<PlayerEntry("p1", Origin, TRUE, TRUE), PlayerEntry("p2", AxisX, TRUE, TRUE)>>

FireDirections == {AxisX, Origin}

InitFire == InitWith({FireCache})

NextFire ==
    \/ Advance(FireHorizon)
    \/ init_manager
    \/ \E player_id \in {"p1", "p3"}, direction \in FireDirections :
          CannonFire(player_id, Origin, direction)
    \/ \E player_id \in {"p1", "p3"}, direction \in FireDirections :
          HarpoonFire(player_id, Origin, direction)

SpecFire == InitFire /\ [][NextFire]_vars

\* C2: a fire request of a player whose last fire of that weapon is less than
\* the weapon's cooldown ago is rejected: the projectile table of the weapon is
\* unchanged, nothing is broadcast and the last-fire time stays as it was.
C2_CooldownRejects ==
    [][/\ ( /\ last'.op = "harpoon_fire"
            /\ last'.who \in DOMAIN player_harpoon_cooldowns
            /\ now - player_harpoon_cooldowns[last'.who] < HARPOON_COOLDOWN )
          => /\ out' = <<>>
             /\ projectiles' = projectiles
             /\ player_harpoon_cooldowns' = player_harpoon_cooldowns
       /\ ( /\ last'.op = "cannon_fire"
            /\ last'.who \in DOMAIN player_cooldowns
            /\ now - player_cooldowns[last'.who] < CANNON_COOLDOWN )
          => /\ out' = <<>>
             /\ cannons' = cannons
             /\ player_cooldowns' = player_cooldowns]_vars

\* a harpoon request refused one second after the harpoon of the same player
\* was launched
C2_Witness ==
    /\ last.op = "harpoon_fire"
    /\ last.who = "p1"
    /\ out = <<>>
    /\ pm_socketio
    /\ DictHas(projectiles, projectile_id("harpoon", "p1", now - 2))
    /\ "p1" \in DOMAIN player_harpoon_cooldowns
    /\ player_harpoon_cooldowns["p1"] = now - 2

-----------------------------------------------------------------------------
(* Specification of the validation of fire requests: p1 is active, p4 is in
   the cache but not active (its session has ended), p3 is not in the cache *)

GateCache == <<PlayerEntry("p1", Origin, TRUE, TRUE), PlayerEntry("p4", AxisX, TRUE, FALSE)>>

InitGate == InitWith({GateCache})

NextGate ==
    \/ Advance(FireWindow)
    \/ init_manager
    \/ \E player_id \in {"p1", "p3", "p4"}, direction \in FireDirections :
          CannonFire(player_id, Origin, direction)
    \/ \E player_id \in {"p1", "p3", "p4"}, direction \in FireDirections :
          HarpoonFire(player_id, Origin, direction)

SpecGate == InitGate /\ [][NextGate]_vars

\* C19: a fire request, cannon or harpoon, whose player is not in the cache or
\* is in the cache but not active is dropped: no projectile is created, no
\* cooldown is recorded and nothing is broadcast.
C19_UnknownOrInactiveIsDropped ==
    [][( /\ last'.op \in {"harpoon_fire", "cannon_fire"}
         /\ (~Known(last'.who) \/ ~Player(last'.who).active) )
       => /\ out' = <<>>
          /\ projectiles' = projectiles
          /\ cannons' = cannons
          /\ player_harpoon_cooldowns' = player_harpoon_cooldowns
          /\ player_cooldowns' = player_cooldowns]_vars

\* the same for players that are not in the cache only
UnknownIsDropped ==
    [][( /\ last'.op \in {"harpoon_fire", "cannon_fire"}
         /\ ~Known(last'.who) )
       => /\ out' = <<>>
          /\ projectiles' = projectiles
          /\ cannons' = cannons
          /\ player_harpoon_cooldowns' = player_harpoon_cooldowns
          /\ player_cooldowns' = player_cooldowns]_vars

\* C20: a fire request, cannon or harpoon, whose direction has length zero is
\* rejected and changes nothing: no projectile, no cooldown record, no
\* broadcast.
C20_ZeroDirectionIsRejected ==
    [][( /\ last'.op \in {"harpoon_fire", "cannon_fire"}
         /\ dir_len(last'.direction) = 0 )
       => /\ out' = <<>>
          /\ projectiles' = projectiles
          /\ cannons' = cannons
          /\ player_harpoon_cooldowns' = player_harpoon_cooldowns
          /\ player_cooldowns' = player_cooldowns]_vars

\* the same for harpoon requests only
HarpoonZeroDirectionIsRejected ==
    [][( /\ last'.op = "harpoon_fire"
         /\ dir_len(last'.direction) = 0 )
       => /\ out' = <<>>
          /\ projectiles' = projectiles
          /\ player_harpoon_cooldowns' = player_harpoon_cooldowns]_vars

-----------------------------------------------------------------------------
(* Specification of position sync *)

MoveCache == <<PlayerEntry("p1", Origin, TRUE, TRUE), PlayerEntry("p2", AxisX, TRUE, TRUE)>>

MovePositions == {Origin, Pos(20, 0, 0), Pos(21, 0, 0)}

\* rotation and mode of a payload: both absent, or both given
MoveExtras == {<<<<>>, <<>>>>, <<<<1>>, <<"diving">>>>}

InitMove == InitWith({MoveCache})

NextMove ==
    \/ Advance(MoveHorizon)
    \/ \E position \in MovePositions, extra \in MoveExtras,
          db_ok \in BOOLEAN, cleanup \in BOOLEAN :
          PositionUpdate("p1", position, extra[1], extra[2], db_ok, cleanup)
    \/ PositionUpdate("p3", Origin, <<>>, <<>>, TRUE, FALSE)

SpecMove == InitMove /\ [][NextMove]_vars

\* C8: the position-sync record of a player (time and position of the last
\* write) changes only in a step in which the persistence service takes the
\* write; when the write fails the record is as before.
C8_RecordFollowsWrite ==
    [][(last_db_update' # last_db_update \/ last_db_positions' # last_db_positions)
         => /\ last'.op = "update_position"
            /\ last'.write = "ok"
            /\ db_players'[last'.who] = [position |-> last_db_positions'[last'.who],
                                         at |-> last_db_update'[last'.who]]]_vars

\* C9: a position update whose persistence write fails still stores the
\* position in the cache and still broadcasts player-moved to the others.
C9_FailureKeepsLivePath ==
    [][(last'.op = "update_position" /\ last'.write = "failed")
         => /\ DictGet(players', last'.who).position = last'.position
            /\ out' = <<Event("player_moved", last'.who, NoPlayer, NoId,
                              last'.position, "others")>>]_vars

\* C10: a position update reaches the persistence service only if more than
\* DB_UPDATE_INTERVAL has passed since the last durable position write of the
\* same player.
C10_WritesAreSpaced ==
    [][(/\ last'.op = "update_position"
        /\ last'.write # "none"
        /\ last'.who \in DOMAIN db_players)
         => now - db_players[last'.who].at > DB_UPDATE_INTERVAL]_vars

\* a second durable write of the same player, after the interval
C10_Witness ==
    /\ last.op = "update_position"
    /\ last.write = "ok"
    /\ last.prev >= Epoch0
    /\ now - last.prev > DB_UPDATE_INTERVAL
    /\ db_players[last.who] = [position |-> last.position, at |-> now]

\* the squared distance of a reported position from the position the
\* persistence service holds for the player
DurableDistanceSq(player_id, position) ==
    DistanceSq(position, db_players[player_id].position)

\* C11: for a player with a durably written position, an update is written
\* only if it is strictly farther than MIN_POSITION_UPDATE_DISTANCE from that
\* position; with DB_UPDATE_INTERVAL elapsed since that write, it is written
\* exactly if it is strictly farther.
C11_WriteOnlyBeyondThreshold ==
    [][(/\ last'.op = "update_position"
        /\ last'.who \in DOMAIN db_players)
         => /\ last'.write # "none"
                 => DurableDistanceSq(last'.who, last'.position)
                      > MIN_POSITION_UPDATE_DISTANCE * MIN_POSITION_UPDATE_DISTANCE
            /\ now - db_players[last'.who].at > DB_UPDATE_INTERVAL
                 => (last'.write # "none"
                       <=> DurableDistanceSq(last'.who, last'.position)
                             > MIN_POSITION_UPDATE_DISTANCE * MIN_POSITION_UPDATE_DISTANCE)]_vars

\* the sync record of the player is what the persistence service holds
RecordIsDurable(player_id) ==
    /\ player_id \in DOMAIN db_players
    /\ player_id \in DOMAIN last_db_positions
    /\ player_id \in DOMAIN last_db_update
    /\ last_db_positions[player_id] = db_players[player_id].position
    /\ last_db_update[player_id] = db_players[player_id].at

\* the threshold rule of C11 in the steps where no failed write has left the
\* sync record different from the persistence service
ThresholdWhenRecordIsDurable ==
    [][(/\ last'.op = "update_position"
        /\ RecordIsDurable(last'.who)
        /\ now - db_players[last'.who].at > DB_UPDATE_INTERVAL)
         => (last'.write # "none"
               <=> DurableDistanceSq(last'.who, last'.position)
                     > MIN_POSITION_UPDATE_DISTANCE * MIN_POSITION_UPDATE_DISTANCE)]_vars

\* C12: the first update of a known player, when no sync record of the player
\* exists, issues a persistence write of the reported position, whatever the
\* position is.
C12_FirstUpdateWrites ==
    [][(/\ last'.op = "update_position"
        /\ Known(last'.who)
        /\ last'.who \notin DOMAIN last_db_positions)
         => /\ last'.write \in {"ok", "failed"}
            /\ last_db_positions'[last'.who] = last'.position
            /\ last_db_update'[last'.who] = now
            /\ last'.write = "ok"
                 => db_players'[last'.who] = [position |-> last'.position, at |-> now]]_vars

\* a first update that reports the position the player already has
C12_Witness ==
    /\ last.op = "update_position"
    /\ last.who = "p1"
    /\ last.fresh
    /\ last.write = "ok"
    /\ last.position = Origin
    /\ db_players["p1"] = [position |-> Origin, at |-> now]

\* C13: every update of a known player stores position (and rotation and mode
\* when given) and the time in the cache and broadcasts player-moved to the
\* others, with or without a persistence write.
C13_LivePathAlways ==
    [][(last'.op = "update_position" /\ Known(last'.who))
         => /\ DictGet(players', last'.who).position = last'.position
            /\ DictGet(players', last'.who).last_update = now
            /\ last'.rotation # <<>>
                 => DictGet(players', last'.who).rotation = last'.rotation[1]
            /\ last'.mode # <<>>
                 => DictGet(players', last'.who).mode = last'.mode[1]
            /\ out' = <<Event("player_moved", last'.who, NoPlayer, NoId,
                              last'.position, "others")>>]_vars

-----------------------------------------------------------------------------
(* Claims about expiry *)

\* the registry half of C14: a spawned projectile expires at creation time +
\* lifetime; a tick at or after that time removes it without a hit, and a
\* tick before it keeps every projectile for which no hit is emitted
RegistryExpiryIsExact ==
    [][/\ (last'.op = "spawn" /\ last'.id # NoId)
            => DictGet(projectiles', last'.id).expires_at = now + last'.lifetime
       /\ last'.op = "tick"
            => \A i \in 1..Len(projectiles) :
                  LET p == projectiles[i].v IN
                  /\ now >= p.expires_at
                       => /\ ~DictHas(projectiles', p.id)
                          /\ HitsFor(out', p.id) = {}
                  /\ (now < p.expires_at /\ HitsFor(out', p.id) = {})
                       => DictHas(projectiles', p.id)]_vars

\* the cannon half of C14: an update of the cannon table at or after the
\* expiry time removes the cannonball, and a hit reported at or after the
\* expiry time is not credited
CannonExpiryIsExact ==
    [][/\ last'.op = "update_cannon_positions"
            => \A i \in 1..Len(cannons) :
                  now >= cannons[i].v.expires_at => ~DictHas(cannons', cannons[i].k)
       /\ (/\ last'.op = "cannon_hit"
           /\ DictHas(cannons, last'.id)
           /\ now >= DictGet(cannons, last'.id).expires_at)
            => /\ out' = <<>>
               /\ players' = players]_vars

\* C14: a projectile is removed for expiry at the first update with
\* now >= expires_at = creation time + lifetime, the instant now = expires_at
\* included; before that it stays unless hit; an expired projectile is not
\* credited with a hit.
C14_ExpiryAtTheInstant == RegistryExpiryIsExact /\ CannonExpiryIsExact

-----------------------------------------------------------------------------
(* Claims about checker errors and missing checkers *)

\* C16: when the checker raises for a projectile in a tick, the projectile is
\* not hit and stays in the table, the tick is not aborted, and every other
\* live projectile is moved and checked in the same tick: one with an eligible
\* player in range is hit and removed, the others stay where the closed form
\* puts them.
C16_CheckerErrorIsNoHit ==
    [][(last'.op = "tick" /\ last'.raised # <<>>) =>
         /\ ~last'.aborted
         /\ \A id \in SeqToSet(last'.raised) :
               /\ DictHas(projectiles, id)
               /\ now < DictGet(projectiles, id).expires_at
               /\ DictHas(projectiles', id)
               /\ HitsFor(out', id) = {}
         /\ \A i \in 1..Len(projectiles) :
               LET p == projectiles[i].v
                   elig == EligibleInRadius(p.owner, DirectPosition(p, now))
                   hit == p.type \in collision_checkers /\ elig # {}
               IN (p.id \notin SeqToSet(last'.raised) /\ now < p.expires_at) =>
                     /\ hit => /\ Cardinality(HitsFor(out', p.id)) = 1
                               /\ ~DictHas(projectiles', p.id)
                     /\ ~hit => /\ DictHas(projectiles', p.id)
                                /\ DictGet(projectiles', p.id).position
                                      = DirectPosition(p, now)
      ]_vars

\* a tick in which the checker raised for one harpoon and a harpoon later in
\* the table was hit and removed
C16_Witness ==
    /\ last.op = "tick"
    /\ ~last.aborted
    /\ Len(last.raised) = 1
    /\ Len(last.collided) = 1
    /\ last.raised[1][3] < last.collided[1][3]
    /\ DictHas(projectiles, last.raised[1])
    /\ ~DictHas(projectiles, last.collided[1])
    /\ Len(out) = 1

\* C18: a projectile of a type without a registered checker is not hit: a tick
\* before its expiry time keeps it and emits no hit for it, a tick at or after
\* its expiry time removes it, and the tick is not aborted.
C18_NoCheckerNoCollision ==
    [][last'.op = "tick" =>
         \A i \in 1..Len(projectiles) :
            LET p == projectiles[i].v IN
            p.type \notin {"harpoon"} =>
               /\ ~last'.aborted
               /\ p.id \notin SeqToSet(last'.collided)
               /\ HitsFor(out', p.id) = {}
               /\ now < p.expires_at
                    => /\ DictHas(projectiles', p.id)
                       /\ DictGet(projectiles', p.id).position = DirectPosition(p, now)
               /\ now >= p.expires_at => ~DictHas(projectiles', p.id)
      ]_vars

\* after a tick a projectile without checker is in the table within the hit
\* radius of a player its owner could hit
C18_Witness ==
    /\ last.op = "tick"
    /\ \E i \in 1..Len(projectiles) :
          /\ projectiles[i].v.type = "cannon"
          /\ projectiles[i].v.position = DirectPosition(projectiles[i].v, now)
          /\ now > projectiles[i].v.created_at
          /\ EligibleInRadius(projectiles[i].v.owner, projectiles[i].v.position) # {}

-----------------------------------------------------------------------------
(* Specification of the tick loop with both weapons, under fair scheduling *)

\* fire requests arrive during the first FireWindow clock units, so that the
\* clock can pass the expiry time of everything fired
FireWindowOpen == now - Epoch0 < FireWindow

NextLoop ==
    \/ Advance(FireWindow + CANNON_LIFETIME)
    \/ init_manager
    \/ \E position \in {Origin, NonNumericPos} :
          FireWindowOpen /\ HarpoonFire("p1", position, AxisX)
    \/ FireWindowOpen /\ HarpoonFire("p2", Origin, AxisX)
    \/ FireWindowOpen /\ CannonFire("p1", Origin, AxisX)
    \/ Tick({})
    \/ CleanupExpiredCannons

\* ENABLED <<Tick({})>>_vars written as a state predicate: a loop is running
\* and a pass of the task would change the state
TickDue ==
    /\ pm_loops > 0
    /\ LET r == update_projectiles_task(projectiles, players, {}, now) IN
          \/ r.projs # projectiles
          \/ r.out # out
          \/ r.deleted # {}
          \/ r.aborted /\ calls.aborts = 0
          \/ background_task_wrapper(pm_loops, r.aborted) # pm_loops
          \/ last # [op |-> "tick", expired |-> r.expired, collided |-> r.collided,
                        raised |-> r.raised, aborted |-> r.aborted]

\* weak fairness of the tick, WF_vars(Tick({})), with its enabling condition
\* given by TickDue
TickIsFair == []<>(~TickDue) \/ []<><<Tick({})>>_vars

\* the clock advances, app.py starts the manager, and the background task is
\* scheduled again and again; no client event is required to arrive
SpecLoop ==
    /\ InitFire
    /\ [][NextLoop]_vars
    /\ WF_vars(Advance(FireWindow + CANNON_LIFETIME))
    /\ WF_vars(init_manager)
    /\ TickIsFair

LoopClock == Epoch0..(Epoch0 + FireWindow + CANNON_LIFETIME)

\* every harpoon in the registry table is eventually not in it
HarpoonEventuallyGone ==
    \A owner \in {"p1", "p2"}, t \in LoopClock :
        DictHas(projectiles, projectile_id("harpoon", owner, t))
            ~> ~DictHas(projectiles, projectile_id("harpoon", owner, t))

\* every cannonball in the cannon table is eventually not in it
CannonEventuallyGone ==
    \A t \in LoopClock :
        DictHas(cannons, cannon_id_of("p1", t)) ~> ~DictHas(cannons, cannon_id_of("p1", t))

\* C15: every projectile fired, harpoon or cannonball, is eventually absent
\* from its table when the clock advances and the tick loop runs, without any
\* further client event.
C15_EveryProjectileGoes == HarpoonEventuallyGone /\ CannonEventuallyGone

\* C17: a tick left by an exception does not end the loop: the number of
\* running loops is as before, and a tick that runs to its end follows.
C17_LoopSurvivesFailedTick ==
    /\ [][pm_loops > 0 => pm_loops' = pm_loops]_vars
    /\ (last.op = "tick" /\ last.aborted) ~> (last.op = "tick" /\ ~last.aborted)

\* a tick that ran to its end and removed an expired projectile, after a tick
\* that was left by an exception
C17_Witness ==
    /\ last.op = "tick"
    /\ ~last.aborted
    /\ last.expired # <<>>
    /\ calls.aborts = 1
    /\ pm_loops = 1

-----------------------------------------------------------------------------
(* Claims about the victims of hits *)

\* the events that tell a client that a projectile of who has hit other
HitEvents == {"harpoon_hit_broadcast", "cannon_hit", "cannon_hit_success"}

\* C21: no hit the server processes, found by a collision check or reported
\* by a client and accepted, names the owner of the projectile as its victim.
C21_NoSelfHit ==
    \A k \in 1..Len(out) : out[k].ev \in HitEvents => out[k].who # out[k].other

\* the same for the hits found by the collision checks only
CheckedHitIsNotSelfHit ==
    last.op # "cannon_hit" =>
        \A k \in 1..Len(out) : out[k].ev \in HitEvents => out[k].who # out[k].other

\* p2 is in the cache but not active and stands where the cannonball of p1
\* is after one clock unit; p3 is active and has no position
VictimCache ==
    <<PlayerEntry("p1", Origin, TRUE, TRUE), PlayerEntry("p2", Pos(20, 0, 0), TRUE, FALSE),
      PlayerEntry("p3", Origin, FALSE, TRUE)>>

InitVictim == InitWith({VictimCache})

NextVictim ==
    \/ Advance(DamageHorizon)
    \/ CannonFire("p1", Origin, AxisX)
    \/ \E id \in DictKeySet(cannons), victim \in {"p2", "p3"} : CannonHit("p1", id, victim)
    \/ UpdateCannonPositions

SpecVictim == InitVictim /\ [][NextVictim]_vars

\* C22: no hit names a player who is not active or has no position as its
\* victim: neither a hit notification nor the damage that comes with it.
C22_VictimIsPresent ==
    \A k \in 1..Len(out) :
        (out[k].ev \in HitEvents /\ Known(out[k].other)) =>
            /\ Player(out[k].other).active
            /\ Player(out[k].other).has_position

\* the same for the harpoon's collision check only
HarpoonVictimIsPresent ==
    \A k \in 1..Len(out) :
        (out[k].ev = "harpoon_hit_broadcast" /\ Known(out[k].other)) =>
            /\ Player(out[k].other).active
            /\ Player(out[k].other).has_position

\* the cannon's collision check does skip players that are not active
CheckedCannonVictimIsActive ==
    last.op = "update_cannon_positions" =>
        \A k \in 1..Len(out) :
            (out[k].ev \in HitEvents /\ Known(out[k].other)) => Player(out[k].other).active

-----------------------------------------------------------------------------
(* Specification of damage to players that are absent: p2 is in the cache
   and not active, p4 is not in the cache *)

NextAbsent ==
    \/ Advance(CombatHorizon)
    \/ \E victim \in {"p1", "p2", "p4"}, amount \in DamageAmounts :
          DamagePlayer(victim, amount, "p3")
    \/ RespawnFire

SpecAbsent == InitVictim /\ [][NextAbsent]_vars

\* C23: damage to a player id that is not in the cache, or whose player is
\* not active, reports no kill and changes nothing: the cache is as before,
\* no defeat is broadcast and no respawn is scheduled.
C23_DamageToAbsentIsNoOp ==
    [][( /\ last'.op = "damage"
         /\ (~Known(last'.who) \/ ~Player(last'.who).active) )
       => /\ ~last'.killed
          /\ players' = players
          /\ out' = <<>>
          /\ timers' = timers]_vars

\* lethal damage was addressed to the inactive p2, whose health is untouched
C23_Witness ==
    /\ last.op = "damage"
    /\ last.who = "p2"
    /\ last.amount = 100
    /\ ~last.killed
    /\ ~Player("p2").active
    /\ Player("p2").health = DEFAULT_HEALTH

-----------------------------------------------------------------------------
(* Specification of defeat and respawn under fair scheduling: both paths
   that broadcast a defeat, with the victim's session leaving and rejoining *)

\* damage arrives during the first FireWindow clock units, so that the clock
\* can pass the due time of every respawn
NextRespawn ==
    \/ Advance(FireWindow + RESPAWN_DELAY)
    \/ \E amount \in DamageAmounts : FireWindowOpen /\ DamagePlayer("p2", amount, "p1")
    \/ FireWindowOpen /\ CannonFire("p1", Origin, AxisX)
    \/ \E id \in DictKeySet(cannons) : FireWindowOpen /\ CannonHit("p1", id, "p2")
    \/ RespawnFire
    \/ Disconnect("s2", TRUE)
    \/ Join("s2", "p2", "verified", <<Player("p2")>>, Origin, TRUE)

\* the clock advances and a delayed_respawn task whose sleep is over is run
SpecRespawn ==
    /\ InitWith({CombatCache(20)})
    /\ [][NextRespawn]_vars
    /\ WF_vars(Advance(FireWindow + RESPAWN_DELAY))
    /\ WF_vars(RespawnFire)

\* a respawn timer leaves the list of pending timers only by firing
TimersAreNotCancelled ==
    [][\A i \in 1..Len(timers) :
          \/ \E j \in 1..Len(timers') : timers'[j] = timers[i]
          \/ last'.op = "respawn" /\ last'.who = timers[i].player
                                  /\ last'.due = timers[i].due]_vars

\* a defeat broadcast by damage_player is followed by the respawn
DamageDefeatThenRespawn ==
    (last.op = "damage" /\ DefeatsOf(out, "p2") # {})
        ~> (RespawnsOf(out, "p2") # {} /\ Player("p2").health = DEFAULT_HEALTH)

\* C24: every defeat broadcast for a player is eventually followed by a
\* respawn of that player, whichever path broadcast the defeat: the respawn
\* timer is not cancelled, also not when the player's session leaves or
\* rejoins, and when it fires the health is 100 and the respawn is broadcast.
C24_DefeatThenRespawn ==
    /\ TimersAreNotCancelled
    /\ (DefeatsOf(out, "p2") # {})
           ~> (RespawnsOf(out, "p2") # {} /\ Player("p2").health = DEFAULT_HEALTH)

-----------------------------------------------------------------------------
(* Claims about the start of the registry *)

\* C25: starting the registry is idempotent: after any number of init_manager
\* calls exactly one tick loop runs, and a call that finds the registry
\* initialized starts no background task.
C25_StartIsIdempotent ==
    /\ [](pm_loops <= 1)
    /\ [][last'.op = "init_manager" =>
            /\ pm_socketio'
            /\ pm_loops' = 1
            /\ (pm_socketio => pm_loops' = pm_loops)]_vars

\* init_manager was called on an initialized registry, and a tick has run a
\* projectile since
C25_Witness ==
    /\ last.op = "init_manager"
    /\ last.again
    /\ pm_loops = 1
    /\ projectiles # <<>>
    /\ \E i \in 1..Len(projectiles) : projectiles[i].v.position # Origin

-----------------------------------------------------------------------------
(* Specification of the presence cache: session s1 joins as p2 and s2 as the
   new player p5, and they leave, while p2 moves, is damaged and respawns;
   movement, damage and the join of p5 arrive in the first FireWindow clock
   units *)

\* what Player.get returns for an id: the document of a cached player
StoredPlayer(player_id) == IF Known(player_id) THEN <<Player(player_id)>> ELSE <<>>

Credentials == {"none", "rejected", "verified"}

NextSession ==
    \/ Advance(FireWindow + RESPAWN_DELAY)
    \/ \E credential \in Credentials, db_ok \in BOOLEAN :
          Join("s1", "p2", credential, StoredPlayer("p2"), Origin, db_ok)
    \/ FireWindowOpen /\ Join("s2", "p5", "verified", StoredPlayer("p5"), Origin, TRUE)
    \/ \E sid \in {"s1", "s2"}, db_ok \in BOOLEAN : Disconnect(sid, db_ok)
    \/ FireWindowOpen /\ PositionUpdate("p2", Pos(21, 0, 0), <<>>, <<>>, TRUE, FALSE)
    \/ FireWindowOpen /\ DamagePlayer("p2", 100, "p1")
    \/ RespawnFire

SpecSession == InitWith({CombatCache(20)}) /\ [][NextSession]_vars

-----------------------------------------------------------------------------
(* Specification of update_position events with incomplete payloads *)

\* a payload without x, without y, without z
PositionWithout(axis) == [a \in {"x", "y", "z"} \ {axis} |-> 0]

PayloadPositions == {Origin, Pos(21, 0, 0)} \cup {PositionWithout(a) : a \in {"x", "y", "z"}}

NextPayload ==
    \/ Advance(MoveHorizon)
    \/ \E position \in PayloadPositions, db_ok \in BOOLEAN :
          PositionUpdate("p1", position, <<>>, <<>>, db_ok, FALSE)
    \/ \E player_id \in {"p3", NoPlayer} :
          PositionUpdate(player_id, Origin, <<>>, <<>>, TRUE, FALSE)

SpecPayload == InitMove /\ [][NextPayload]_vars

\* a payload the handler must drop
Malformed(player_id, position) ==
    player_id = NoPlayer \/ ~Known(player_id) \/ ~Numeric(position)

\* C27: an update_position event without player id, for an unknown player, or
\* with one of x, y, z absent is dropped: the cache (position, last-update
\* time), the position-sync record and the persisted position are unchanged,
\* nothing is broadcast and the handler does not fail.
C27_MalformedIsDropped ==
    [][( /\ last'.op = "update_position"
         /\ Malformed(last'.who, last'.position) )
       => /\ players' = players
          /\ last_db_update' = last_db_update
          /\ last_db_positions' = last_db_positions
          /\ db_players' = db_players
          /\ out' = <<>>
          /\ ~last'.raised]_vars

\* the same for the payloads the handler's checks cover: no player id, an
\* unknown player, x or z absent
CheckedPayloadIsDropped ==
    [][( /\ last'.op = "update_position"
         /\ \/ last'.who = NoPlayer
            \/ ~Known(last'.who)
            \/ "x" \notin DOMAIN last'.position
            \/ "z" \notin DOMAIN last'.position )
       => /\ players' = players
          /\ last_db_update' = last_db_update
          /\ last_db_positions' = last_db_positions
          /\ db_players' = db_players
          /\ out' = <<>>
          /\ ~last'.raised]_vars

-----------------------------------------------------------------------------
(* Recipients of the weapon-fired notifications *)

FiredEvents == {"cannon_fired", "harpoon_fired_broadcast"}

\* C28: the weapon-fired notification of an accepted fire, cannon or harpoon,
\* goes to every connected session except the firer's.
C28_FiredSkipsFirer ==
    \A i \in 1..Len(out) : out[i].ev \in FiredEvents => out[i].to = "others"

\* the harpoon's notification skips the firer
HarpoonFiredSkipsFirer ==
    \A i \in 1..Len(out) : out[i].ev = "harpoon_fired_broadcast" => out[i].to = "others"

-----------------------------------------------------------------------------
(* Specification of player_join on a full server: verify_protection.py fills
   the cache with active players and joins as 'new_guy' *)

PLAYER_CAP == 10

DummyIds ==
    <<"dummy_0", "dummy_1", "dummy_2", "dummy_3", "dummy_4",
      "dummy_5", "dummy_6", "dummy_7", "dummy_8", "dummy_9">>

\* players[f'dummy_{i}'] = {'active': True} for the first n ids
DummyCache(n) == [i \in 1..n |-> PlayerEntry(DummyIds[i], Origin, FALSE, TRUE)]

InitCap == InitWith({DummyCache(PLAYER_CAP), DummyCache(PLAYER_CAP - 1)})

NextCap ==
    \/ Advance(DamageHorizon)
    \/ \E sid \in {"s1", "s2"}, credential \in Credentials, db_ok \in BOOLEAN :
          Join(sid, "new_guy", credential, StoredPlayer("new_guy"), Origin, db_ok)
    \/ \E sid \in {"s1", "s2"}, db_ok \in BOOLEAN : Disconnect(sid, db_ok)

SpecCap == InitCap /\ [][NextCap]_vars

\* C29: a player_join while PLAYER_CAP players are present and active is
\* rejected: the cache gets no new player, the joining session receives a
\* connection_response (the one carrying the error) and the player is not
\* announced as joined.
C29_JoinRejectedWhenFull ==
    [][( /\ last'.op = "player_join"
         /\ last'.present >= PLAYER_CAP
         /\ ~last'.known )
       => /\ ~DictHas(players', last'.who)
          /\ \E i \in 1..Len(out') : out'[i].ev = "connection_response"
                                     /\ out'[i].to = "sender"
          /\ \A i \in 1..Len(out') : out'[i].ev # "player_joined"]_vars

-----------------------------------------------------------------------------
(* Specification of GET /api/players under load: verify_protection.py sends
   51 requests at once *)

\* requests a client may send per minute
RATE_LIMIT == 50

TOO_MANY_REQUESTS == 429

\* a minute of the clock
Minute == 120

NextApi ==
    \/ Advance(DamageHorizon)
    \/ GetPlayers
    \/ Join("s2", "p2", "verified", StoredPlayer("p2"), Origin, TRUE)
    \/ Disconnect("s2", TRUE)

SpecApi == InitWith({CombatCache(20)}) /\ [][NextApi]_vars

\* C30: of the requests to GET /api/players within one minute the first
\* RATE_LIMIT are answered with status 200 and the next one with 429.
C30_RequestsAreLimited ==
    [][( /\ last'.op = "get_players"
         /\ last'.since < Minute )
       => last'.status = IF last'.nth <= RATE_LIMIT THEN 200 ELSE TOO_MANY_REQUESTS]_vars

\* the first RATE_LIMIT requests are answered with status 200 and the list of
\* the active players
FirstRequestsAreServed ==
    [][( /\ last'.op = "get_players"
         /\ last'.nth <= RATE_LIMIT )
       => /\ last'.status = 200
          /\ last'.body = {players[i].k : i \in {j \in 1..Len(players) : players[j].v.active}}]_vars

-----------------------------------------------------------------------------
(* Completeness of one update pass *)

\* the cannons of a table that are past their expiry at current_time
ExpiredCannons(table, current_time) ==
    {table[i].k : i \in {j \in 1..Len(table) : current_time > table[j].v.expires_at}}

\* C31: one update pass evaluates every projectile that is live at its start
\* exactly once, also when one of them collides during the pass: the pass is
\* never aborted, so every expired projectile is gone after it and every
\* projectile that stays has the position of this pass.
C31_PassIsComplete ==
    [][last'.op = "update_cannon_positions"
       => /\ ~last'.raised
          /\ \A id \in ExpiredCannons(cannons, now) : ~DictHas(cannons', id)
          /\ \A i \in 1..Len(cannons') :
                cannons'[i].v.position
                   = cannon_new_position(DictGet(cannons, cannons'[i].k), now)]_vars

\* a pass of update_cannon_positions in which no cannon collides is complete
PassWithoutCollisionIsComplete ==
    [][( /\ last'.op = "update_cannon_positions"
         /\ \A i \in 1..Len(out') : out'[i].ev # "cannon_hit" )
       => /\ ~last'.raised
          /\ \A id \in ExpiredCannons(cannons, now) : ~DictHas(cannons', id)
          /\ \A i \in 1..Len(cannons') :
                cannons'[i].v.position
                   = cannon_new_position(DictGet(cannons, cannons'[i].k), now)]_vars

-----------------------------------------------------------------------------
(* Uniqueness of projectile ids *)

\* C32: the id add_projectile returns is not the id of a projectile that is in
\* the table already, so no spawn overwrites a projectile record; this covers
\* two spawns of one type by one owner at the same clock reading.
C32_SpawnIdIsFresh ==
    [][( /\ last'.op = "spawn"
         /\ last'.id # NoId )
       => /\ ~DictHas(projectiles, last'.id)
          /\ Len(projectiles') = Len(projectiles) + 1]_vars

\* the id of an accepted cannon fire is new: the cooldown keeps two fires of
\* one player apart
CannonIdIsFresh ==
    [][\A i \in 1..Len(out') :
          out'[i].ev = "cannon_fired" => ~DictHas(cannons, out'[i].pid)]_vars

-----------------------------------------------------------------------------
(* Damage operations do not lose updates *)

\* the damage the step that leads to the primed state applies to player id:
\* the amount of a damage_player call that is not ignored, or CANNON_DAMAGE for
\* a cannon that hits the player
DamageDealt(id, op, cache, events) ==
    IF op.op = "damage"
    THEN IF op.who = id /\ ~damage_ignored(cache, id) THEN op.amount ELSE 0
    ELSE IF \E i \in 1..Len(events) : events[i].ev = "cannon_hit" /\ events[i].other = id
         THEN CANNON_DAMAGE
         ELSE 0

\* C33: a damage operation reads and writes the health in one step, and no
\* other event writes it in between: every damage operation of amount a on a
\* player with health h leaves max(0, h - a), so two of them, of amounts a and
\* b, leave max(0, h - a - b) however other events interleave; nothing else
\* than a damage operation lowers or raises the health in this specification.
C33_NoLostUpdate ==
    [][\A i \in 1..Len(players) :
          LET id == players[i].k
              dealt == DamageDealt(id, last', players, out')
          IN DictGet(players', id).health = new_health(players[i].v.health, dealt)]_vars

\* the same for damage_player alone
DamagePlayerLosesNoUpdate ==
    [][\A i \in 1..Len(players) :
          LET id == players[i].k IN
          ( \A j \in 1..Len(out') : out'[j].ev # "cannon_hit" )
             => DictGet(players', id).health
                   = new_health(players[i].v.health,
                                DamageDealt(id, last', players, out'))]_vars

\* a cannon hit that does not defeat the player subtracts from the current
\* health as well
CannonHitLosesNoUpdate ==
    [][\A i \in 1..Len(players) :
          LET id == players[i].k IN
          players[i].v.health > DamageDealt(id, last', players, out')
             => DictGet(players', id).health
                   = players[i].v.health - DamageDealt(id, last', players, out')]_vars

-----------------------------------------------------------------------------
(* The effect of a harpoon hit *)

\* the entry apply_status_effect(hit_player_id, 'harpooned', {'by': owner_id, ...})
\* is to leave in the victim's status_effects
Harpooned(owner_id) == [effect |-> "harpooned", by |-> owner_id]

\* C34: a harpoon hit is a status application: the victim gets a 'harpooned'
\* status effect attributed to the harpoon's owner and keeps the health it had.
C34_HitAppliesStatus ==
    [][\A k \in 1..Len(out') :
          (out'[k].ev = "harpoon_hit_broadcast" /\ Known(out'[k].other))
             => /\ Harpooned(out'[k].who) \in DictGet(players', out'[k].other).status_effects
                /\ DictGet(players', out'[k].other).health = Player(out'[k].other).health]_vars

\* a harpoon hit leaves the victim's health as it was
HarpoonHitKeepsHealth ==
    [][\A k \in 1..Len(out') :
          (out'[k].ev = "harpoon_hit_broadcast" /\ Known(out'[k].other))
             => DictGet(players', out'[k].other).health = Player(out'[k].other).health]_vars

-----------------------------------------------------------------------------
(* Joins without a valid credential *)

\* C35: a player_join whose credential is missing, fails verification or
\* verifies to another id than the claimed one leaves the cache, the
\* persistence service and the session map as they are and broadcasts no
\* player_joined.
C35_UnverifiedJoinStoresNothing ==
    [][( /\ last'.op = "player_join"
         /\ last'.credential # "verified" )
       => /\ players' = players
          /\ db_players' = db_players
          /\ socket_to_user_map' = socket_to_user_map
          /\ \A i \in 1..Len(out') : out'[i].ev # "player_joined"]_vars

\* an unverified join arrived for a player who is cached, and one for a
\* player who is not
C35_Witness ==
    /\ last.op = "player_join"
    /\ last.credential = "rejected"
    /\ Known("new_guy")
    /\ "s1" \in DOMAIN socket_to_user_map
    /\ "s2" \notin DOMAIN socket_to_user_map
    /\ last.sid = "s2"

-----------------------------------------------------------------------------
(* Specification of the cooldown records among all other events *)

NextCooldown ==
    \/ Advance(FireHorizon)
    \/ init_manager
    \/ FireWindowOpen /\ \E player_id \in {"p1", "p2"} : CannonFire(player_id, Origin, AxisX)
    \/ FireWindowOpen /\ \E player_id \in {"p1", "p2"} : HarpoonFire(player_id, Origin, AxisX)
    \/ FireWindowOpen /\ HarpoonFire("p1", Origin, Origin)
    \/ Tick({})
    \/ \E id \in DictKeySet(cannons) : CannonHit("p1", id, "p2")
    \/ FireWindowOpen /\ Join("s1", "p2", "verified", StoredPlayer("p2"), Origin, TRUE)
    \/ Disconnect("s1", TRUE)

SpecCooldown == InitFire /\ [][NextCooldown]_vars

\* the record of player_id in a cooldown table is the same before and after
SameCooldown(before, after, player_id) ==
    /\ player_id \in DOMAIN before => player_id \in DOMAIN after
    /\ player_id \in DOMAIN after =>
          player_id \in DOMAIN before /\ after[player_id] = before[player_id]

\* the step is a successful fire of the weapon by player_id: the handler of
\* the weapon ran for the player and sent the weapon's fired notification
SuccessfulFire(op, events, handler, fired, player_id) ==
    /\ op.op = handler
    /\ op.who = player_id
    /\ \E i \in 1..Len(events) : events[i].ev = fired /\ events[i].who = player_id

\* C36: the cooldown record of a player and a weapon changes only in a
\* successful fire of that weapon by that player; every other step (fires of
\* other players or of the other weapon, rejected fires, ticks, hits, joins
\* and disconnects) leaves it as it is, and no step deletes it.
C36_CooldownFrame ==
    [][\A player_id \in {"p1", "p2"} :
          /\ \/ SameCooldown(player_cooldowns, player_cooldowns', player_id)
             \/ SuccessfulFire(last', out', "cannon_fire", "cannon_fired", player_id)
          /\ \/ SameCooldown(player_harpoon_cooldowns, player_harpoon_cooldowns', player_id)
             \/ SuccessfulFire(last', out', "harpoon_fire", "harpoon_fired_broadcast",
                               player_id)
          /\ player_id \in DOMAIN player_cooldowns
                => player_id \in DOMAIN player_cooldowns'
          /\ player_id \in DOMAIN player_harpoon_cooldowns
                => player_id \in DOMAIN player_harpoon_cooldowns']_vars

\* the cannon's record changes only in a successful cannon fire of the player,
\* and a record changes only in a step of its own weapon's fire handler for
\* that player
CooldownChangesOnlyInOwnHandler ==
    [][\A player_id \in {"p1", "p2"} :
          /\ \/ SameCooldown(player_cooldowns, player_cooldowns', player_id)
             \/ SuccessfulFire(last', out', "cannon_fire", "cannon_fired", player_id)
          /\ \/ SameCooldown(player_harpoon_cooldowns, player_harpoon_cooldowns', player_id)
             \/ (last'.op = "harpoon_fire" /\ last'.who = player_id)]_vars

-----------------------------------------------------------------------------
(* The harpoon's cooldown and its projectile *)

\* C40: a harpoon fire that records a new cooldown timestamp for a player
\* inserts, in the same operation, a harpoon of that player into the registry
\* and sends the fired broadcast; a fire that creates no projectile leaves the
\* cooldown record as it was.
C40_CooldownOnlyWithProjectile ==
    [][\A player_id \in {"p1", "p2", "p3"} :
          ~SameCooldown(player_harpoon_cooldowns, player_harpoon_cooldowns', player_id)
             => /\ ~DictHas(projectiles, projectile_id("harpoon", player_id, now))
                /\ DictHas(projectiles', projectile_id("harpoon", player_id, now))
                /\ DictGet(projectiles', projectile_id("harpoon", player_id, now)).owner
                      = player_id
                /\ \E i \in 1..Len(out') : /\ out'[i].ev = "harpoon_fired_broadcast"
                                           /\ out'[i].who = player_id]_vars

\* with the manager initialized the cooldown, the projectile and the
\* broadcast come together
InitializedFireIsWhole ==
    [][\A player_id \in {"p1", "p2", "p3"} :
          ( /\ pm_socketio
            /\ ~SameCooldown(player_harpoon_cooldowns, player_harpoon_cooldowns',
                             player_id) )
             => /\ ~DictHas(projectiles, projectile_id("harpoon", player_id, now))
                /\ DictHas(projectiles', projectile_id("harpoon", player_id, now))
                /\ \E i \in 1..Len(out') : /\ out'[i].ev = "harpoon_fired_broadcast"
                                           /\ out'[i].who = player_id]_vars

-----------------------------------------------------------------------------
(* What a tick writes *)

\* ticks among the fires of both weapons
NextTickFrame ==
    \/ Advance(FireHorizon)
    \/ init_manager
    \/ FireWindowOpen /\ CannonFire("p1", Origin, AxisX)
    \/ FireWindowOpen /\ \E player_id \in {"p1", "p2"} : HarpoonFire(player_id, Origin, AxisX)
    \/ Tick({})

SpecTickFrame == InitFire /\ [][NextTickFrame]_vars

\* C37: a tick changes nothing but the current position of a projectile that
\* stays in the registry: id, owner, type, initial position, direction, speed,
\* gravity, creation time and expiry time are as they were at the spawn, and
\* the cooldown records are untouched.
C37_TickWritesPositionOnly ==
    [][last'.op = "tick"
       => /\ \A i \in 1..Len(projectiles') :
                LET id == projectiles'[i].k IN
                /\ DictHas(projectiles, id)
                /\ [projectiles'[i].v EXCEPT !.position = DictGet(projectiles, id).position]
                      = DictGet(projectiles, id)
                /\ projectiles'[i].v.id = id
          /\ player_cooldowns' = player_cooldowns
          /\ player_harpoon_cooldowns' = player_harpoon_cooldowns]_vars

\* a tick has moved a harpoon that stays in the registry, while both cooldown
\* tables hold a record
C37_Witness ==
    /\ last.op = "tick"
    /\ \E i \in 1..Len(projectiles) :
          projectiles[i].v.position # projectiles[i].v.initial_position
    /\ player_cooldowns # EmptyMap
    /\ player_harpoon_cooldowns # EmptyMap

-----------------------------------------------------------------------------
(* Whom a respawn timer revives *)

\* C38: a respawn (health set to DEFAULT_HEALTH and a respawn broadcast)
\* happens only to a player whose health is 0 at that moment: a timer never
\* raises the health of a player who is alive, and never respawns a player
\* who has respawned or rejoined since the defeat.
C38_RespawnOnlyWhenDefeated ==
    [][last'.op = "respawn" => Player(last'.who).health = 0]_vars

\* a timer that fires always belongs to a cached player and is due
RespawnTimerIsDue ==
    [][last'.op = "respawn" => Known(last'.who) /\ last'.due <= now]_vars

-----------------------------------------------------------------------------
(* Specification of sessions and presence, with the credential check of a join
   taking time *)

\* the cache after load_initial_data_task: every stored player, marked inactive
PresenceCache ==
    <<PlayerEntry("p1", Origin, TRUE, FALSE), PlayerEntry("p2", Pos(20, 0, 0), TRUE, FALSE)>>

\* verify_firebase_token returns and the suspended handler runs to its end
JoinFinish(position, db_ok) ==
    \E j \in joining :
        /\ handle_player_join(j.sid, j.who, j.credential, StoredPlayer(j.who), position,
                              db_ok, j.gone)
        /\ joining' = joining \ {j}

NextPresence ==
    \/ Advance(DamageHorizon)
    \/ \E sid \in {"s1", "s2"} :
          Join(sid, "p2", "verified", StoredPlayer("p2"), Origin, TRUE)
    \/ \E sid \in {"s1", "s2"}, credential \in {"rejected", "verified"} :
          JoinBegin(sid, "p2", credential)
    \/ JoinFinish(Origin, TRUE)
    \/ \E sid \in {"s1", "s2"} : Disconnect(sid, TRUE)

SpecPresence == InitWith({PresenceCache}) /\ [][NextPresence]_vars

\* the sessions mapped to a player
SessionsOf(player_id) ==
    {sid \in DOMAIN socket_to_user_map : socket_to_user_map[sid] = player_id}

\* C39: while no join is waiting for its credential check, a player is active
\* exactly if a session is mapped to the player (so the disconnect of one of
\* two sessions of a player leaves the player active), and a join whose
\* session disconnected during the credential check leaves no session mapping
\* behind.
C39_ActiveIffSessionMapped ==
    /\ [](joining = {} =>
             \A i \in 1..Len(players) :
                players[i].v.active <=> SessionsOf(players[i].k) # {})
    /\ [][(last'.op = "player_join" /\ last'.gone)
             => last'.sid \notin DOMAIN socket_to_user_map']_vars

\* with one session per player and no event during the credential check the
\* cache follows the session map
SingleSessionPresence ==
    [][\A i \in 1..Len(players) :
          LET id == players[i].k IN
          ( /\ joining = {} /\ joining' = {}
            /\ Cardinality(SessionsOf(id)) + Cardinality(SessionsOf(id)') <= 1
            /\ players[i].v.active <=> SessionsOf(id) # {} )
             => (DictGet(players', id).active <=> SessionsOf(id)' # {})]_vars

====
